---------------------------- MODULE Spec2Model ----------------------------
(***************************************************************************)
(* Model of the game-command stream decoder of jerkeeler/restoration:      *)
(* parser/gameCommandParser.go (parseGameCommands, findFooterOffset,       *)
(* parseCommandList, parseGameCommand, newBaseCommand), the byte readers   *)
(* of parser/decoder.go and the refiner registry of parser/gameCommands.go *)
(* (its pointer-passing revision, the one gameCommandParser.go calls).     *)
(*                                                                         *)
(* The replay blob is a byte array.  Go offsets are 0-based; the array is  *)
(* the sequence buf, so the byte at Go offset o is buf[o + 1].  A Go slice *)
(* has a length and a capacity: an index expression s[i] panics unless     *)
(* 0 <= i < len(s); a slice expression s[lo:hi] panics unless              *)
(* 0 <= lo <= hi <= cap(s).  buf is the whole backing array (its length    *)
(* is the capacity) and dataLen is len(data).                             *)
(*                                                                         *)
(* A run-time panic is the outcome "panic" of the operation it happens in. *)
(***************************************************************************)
EXTENDS Integers, Sequences, FiniteSets, TLC

VARIABLES
    buf,            \* backing array of data
    dataLen,        \* len(data)
    headerEndOffset,\* argument of parseGameCommands
    pc,             \* position in parseGameCommands: "start", "loop", "done"
    offset,         \* the cursor of parseGameCommands
    lastIndex,      \* lastIndex of parseGameCommands
    commandList,    \* commandList of parseGameCommands (flattened commands)
    items,          \* the values item took in the loop, in order (history)
    ret,            \* returned []RawGameCommand: "nil" or a sequence
    err,            \* returned error: "nil" or the error's name
    compressed_array, \* argument of Decompressl33t
    l33tPc,         \* position in Decompressl33t
    l33tOffset,     \* offset of Decompressl33t
    reader,         \* reader of Decompressl33t: "unset", "nil", "open", "closed"
    l33tRet,        \* returned []byte of Decompressl33t: "nil" or a sequence
    l33tErr,        \* returned error of Decompressl33t
    profileKeys,    \* argument of formatRawDataToReplay: the profile keys
    rawCommands,    \* argument of formatRawDataToReplay: its commandList
    xmbData,        \* what the XMB and build-string readers make of data
    fmtPc,          \* position in formatRawDataToReplay
    losingTeams,    \* losingTeams of formatRawDataToReplay
    gameLengthSecs, \* gameLengthSecs of formatRawDataToReplay
    players,        \* players of formatRawDataToReplay
    winningTeam,    \* winningTeam of formatRawDataToReplay
    formattedReplay,\* returned ReplayFormatted
    fmtErr,         \* returned error of formatRawDataToReplay
    refinePc,       \* position in BuySellResourcesCommand.Refine
    refineBase,     \* its baseCommand argument
    refined,        \* the command it returns
    keysNode,       \* argument node of parseProfileKeys
    keysPc,         \* position in parseProfileKeys
    keysPosition,   \* position of parseProfileKeys
    keysI,          \* loop counter i of parseProfileKeys
    keysNum,        \* numKeys of parseProfileKeys
    keysMap,        \* the map profileKeys built by parseProfileKeys
    keysItems,      \* the records read so far, with their offsets (history)
    keysErr,        \* returned error of parseProfileKeys
    treePc,         \* position in ParseHeader
    treeNodes,      \* the nodes created so far; a node's parent is an index
    treeStack,      \* the nodes createTree is still to be called on, in order
    renEnv,         \* arguments of RenameRecFiles and the directory it is given
    renPc,          \* position of RenameRecFiles
    renFs,          \* the files of the directory: path to content
    replayFiles,    \* the paths the walk collected
    renTasks,       \* the goroutines started so far
    errChan,        \* the buffered error channel
    wg,             \* the counter of the WaitGroup
    renLog,         \* the tasks whose os.Rename succeeded, in order
    renRet          \* what RenameRecFiles returned

parserVars == << buf, dataLen, headerEndOffset, pc, offset, lastIndex,
                 commandList, items, ret, err >>

l33tVars == << compressed_array, l33tPc, l33tOffset, reader, l33tRet, l33tErr >>

formatVars == << profileKeys, rawCommands, xmbData, fmtPc, losingTeams,
                 gameLengthSecs, players, winningTeam, formattedReplay, fmtErr >>

refineVars == << refinePc, refineBase, refined >>

keysVars == << keysNode, keysPc, keysPosition, keysI, keysNum, keysMap,
               keysItems, keysErr >>

treeVars == << treePc, treeNodes, treeStack >>

renVars == << renEnv, renPc, renFs, replayFiles, renTasks, errChan, wg, renLog, renRet >>

vars == << parserVars, l33tVars, formatVars, refineVars, keysVars, treeVars, renVars >>

\* the variables of the other programs, which a step of one program leaves alone
notParser == << renVars, treeVars, l33tVars, formatVars, refineVars, keysVars >>
notL33t == << renVars, treeVars, parserVars, formatVars, refineVars, keysVars >>
notFormat == << renVars, treeVars, parserVars, l33tVars, refineVars, keysVars >>
notRefine == << renVars, treeVars, l33tVars, formatVars, keysVars >>
notKeys == << renVars, treeVars, l33tVars, formatVars, refineVars >>
notTree == << renVars, l33tVars, formatVars, refineVars, keysVars >>
notRen == << parserVars, l33tVars, formatVars, refineVars, keysVars, treeVars >>

-----------------------------------------------------------------------------
(* Bounds of the explored inputs *)

\* command lists in a generated stream
MaxLists == 2
\* game commands in a generated command list
MaxCmds == 2
\* type codes 0 .. MaxTypeCode are tried (the registry's largest code is 75)
MaxTypeCode == 76
\* bytes of backing array beyond len(data) that are tried
MaxSlack == 2
\* bytes after the last command list that are tried
MaxTail == 2
\* longest payload of a stored deflate block
MaxData == 2
\* commands in the command list handed to formatRawDataToReplay
MaxFmtCmds == 2
\* records in the profile key table
MaxKeys == 2
\* pieces in the root node of the header tree
MaxPieces == 2
\* files in the directory given to RenameRecFiles
MaxFiles == 2

-----------------------------------------------------------------------------
(* Arithmetic helpers *)

\* variant: every input is counted as four bytes wide
SumSeq_FourEach(s) == 4 * Len(s)

RECURSIVE SumSeq(_)
\* for _, f := range inputTypes { byteLength += f() }
SumSeq(s) == IF s = << >> THEN 0 ELSE Head(s) + SumSeq(Tail(s))

RECURSIVE BitAnd(_, _)
\* Go's & on unsigned integers
BitAnd(a, b) ==
    IF a = 0 \/ b = 0 THEN 0
    ELSE (a % 2) * (b % 2) + 2 * BitAnd(a \div 2, b \div 2)

SetMin(S) == CHOOSE x \in S : \A y \in S : x <= y

Zeros(n) == [i \in 1..n |-> 0]

-----------------------------------------------------------------------------
(* parser/decoder.go: the byte readers, with Go's bounds rules *)

Cap == Len(buf)

\* data[o] does not panic
CanIndex(o) == 0 <= o /\ o < dataLen

\* data[lo:hi] does not panic
CanSlice(lo, hi) == 0 <= lo /\ lo <= hi /\ hi <= Cap

ByteAt(o) == buf[o + 1]

CanReadUint16(o) == CanSlice(o, o + 2)
readUint16(o) == ByteAt(o) + 256 * ByteAt(o + 1)

CanReadUint32(o) == CanSlice(o, o + 4)
readUint32(o) ==
    ByteAt(o) + 256 * ByteAt(o + 1) + 65536 * ByteAt(o + 2)
        + 16777216 * ByteAt(o + 3)

\* readVector makes three readInt32 calls, at o, o + 4 and o + 8
CanReadVector(o) == CanReadUint32(o) /\ CanReadUint32(o + 4) /\ CanReadUint32(o + 8)

-----------------------------------------------------------------------------
(* parser/consts.go *)

FOOTER == << 0, 1, 0, 0, 0, 0, 0, 0 >>


-----------------------------------------------------------------------------
(* parser/gameCommands.go: the refiner registry *)

\* BuildCommandFactory: the factory.Register calls, in order
Registrations ==
    << << 0, "TaskCommand" >>,
       << 1, "ResearchCommand" >>,
       << 2, "TrainCommand" >>,
       << 3, "BuildCommand" >>,
       << 4, "SetGatherPointCommand" >>,
       << 7, "DeleteCommand" >>,
       << 9, "StopCommand" >>,
       << 12, "ProtoPowerCommand" >>,
       << 13, "BuySellResourcesCommand" >>,
       << 14, "UngarrisonCommand" >>,
       << 16, "ResignCommand" >>,
       << 18, "UnknownCommand18" >>,
       << 19, "TributeCommand" >>,
       << 23, "FinishUnitTransformCommand" >>,
       << 25, "SetUnitStanceCommand" >>,
       << 26, "ChangeDiplomacyCommand" >>,
       << 34, "TownBellCommand" >>,
       << 35, "AutoScoutEventCommand" >>,
       << 37, "ChangeControlGroupContentsCommand" >>,
       << 38, "RepairCommand" >>,
       << 41, "TauntCommand" >>,
       << 44, "CheatCommand" >>,
       << 45, "CancelQueuedItemCommand" >>,
       << 48, "SetFormationCommand" >>,
       << 53, "StartUnitTransformCommand" >>,
       << 55, "UnknownCommand55" >>,
       << 66, "AutoqueueCommand" >>,
       << 67, "ToggleAutoUnitAbilityCommand" >>,
       << 68, "TimeShiftCommand" >>,
       << 69, "BuildWallConnectorCommand" >>,
       << 71, "SeekShelterCommand" >>,
       << 72, "PrequeueTechCommand" >>,
       << 75, "PrebuyGodPowerCommand" >> >>

\* variant: the refiner is stored under the next type code
Register_Shifted(refiners, cmdType, refiner) ==
    IF cmdType + 1 \notin DOMAIN refiners
    THEN refiners @@ (cmdType + 1 :> refiner)
    ELSE refiners

\* CommandFactory.Register: refiners[cmdType] = refiner unless one exists
Register(refiners, cmdType, refiner) ==
    IF cmdType \notin DOMAIN refiners
    THEN refiners @@ (cmdType :> refiner)
    ELSE refiners

RECURSIVE RegisterAll(_, _)
RegisterAll(refiners, regs) ==
    IF regs = << >> THEN refiners
    ELSE RegisterAll(Register(refiners, Head(regs)[1], Head(regs)[2]), Tail(regs))

\* NewCommandFactory: an empty refiners map
NewCommandFactory == << >>

BuildCommandFactory == RegisterAll(NewCommandFactory, Registrations)

CommandFactoryInstance == BuildCommandFactory

\* CommandFactory.Get: the "exists" result
RefinerExists(commandType) == commandType \in DOMAIN CommandFactoryInstance

\* CommandFactory.Get: the refiner (named by its command struct)
RefinerOf(commandType) == CommandFactoryInstance[commandType]

unpackInt32 == 4
unpackInt8 == 1
unpackVector == 12
unpackFloat == 4

\* The byteLength each Refine method computes: the literal it assigns, or
\* the sum over its inputTypes list.
RefinerByteLength(refiner) ==
    CASE refiner = "TaskCommand" ->
            SumSeq(<< unpackInt32, unpackInt32, unpackInt32, unpackInt32,
                      unpackVector, unpackFloat, unpackInt32, unpackInt32,
                      unpackInt32 >>)
      [] refiner = "ResearchCommand" -> 12
      [] refiner = "TrainCommand" -> 18
      [] refiner = "BuildCommand" -> 52
      [] refiner = "SetGatherPointCommand" ->
            SumSeq(<< unpackInt32, unpackInt32, unpackVector, unpackFloat,
                      unpackInt32, unpackInt32 >>)
      [] refiner = "DeleteCommand" ->
            SumSeq(<< unpackInt32, unpackInt32, unpackInt8 >>)
      [] refiner = "StopCommand" ->
            SumSeq(<< unpackInt32, unpackInt32 >>)
      [] refiner = "ProtoPowerCommand" -> 57
      [] refiner = "BuySellResourcesCommand" -> 20
      [] refiner = "UngarrisonCommand" ->
            SumSeq(<< unpackInt32, unpackInt32 >>)
      [] refiner = "ResignCommand" ->
            SumSeq(<< unpackInt32, unpackInt32, unpackInt32, unpackInt32,
                      unpackInt32, unpackInt8 >>)
      [] refiner = "UnknownCommand18" ->
            SumSeq(<< unpackInt32, unpackInt32, unpackInt32 >>)
      [] refiner = "TributeCommand" ->
            SumSeq(<< unpackInt32, unpackInt32, unpackInt32, unpackInt32,
                      unpackFloat, unpackFloat, unpackInt8 >>)
      [] refiner = "FinishUnitTransformCommand" ->
            SumSeq(<< unpackInt32, unpackInt32, unpackInt32, unpackInt8,
                      unpackInt8 >>)
      [] refiner = "SetUnitStanceCommand" ->
            SumSeq(<< unpackInt32, unpackInt32, unpackInt8, unpackInt8,
                      unpackInt32 >>)
      [] refiner = "ChangeDiplomacyCommand" ->
            SumSeq(<< unpackInt32, unpackInt32, unpackInt32, unpackInt8 >>)
      [] refiner = "TownBellCommand" -> 8
      [] refiner = "AutoScoutEventCommand" -> 12
      [] refiner = "ChangeControlGroupContentsCommand" ->
            SumSeq(<< unpackInt32, unpackInt32, unpackInt8, unpackInt32 >>)
      [] refiner = "RepairCommand" ->
            SumSeq(<< unpackInt32, unpackInt32, unpackInt32 >>)
      [] refiner = "TauntCommand" -> 41
      [] refiner = "CheatCommand" -> 16
      [] refiner = "CancelQueuedItemCommand" ->
            SumSeq(<< unpackInt32, unpackInt32, unpackInt32, unpackInt32,
                      unpackInt32 >>)
      [] refiner = "SetFormationCommand" -> 16
      [] refiner = "StartUnitTransformCommand" ->
            SumSeq(<< unpackInt32, unpackInt32, unpackInt32 >>)
      [] refiner = "UnknownCommand55" ->
            SumSeq(<< unpackInt32, unpackInt32, unpackVector >>)
      [] refiner = "AutoqueueCommand" -> 12
      [] refiner = "ToggleAutoUnitAbilityCommand" ->
            SumSeq(<< unpackInt32, unpackInt32, unpackInt8 >>)
      [] refiner = "TimeShiftCommand" -> 32
      [] refiner = "BuildWallConnectorCommand" ->
            SumSeq(<< unpackInt32, unpackInt32, unpackInt32, unpackVector,
                      unpackVector >>)
      [] refiner = "SeekShelterCommand" ->
            SumSeq(<< unpackInt32, unpackInt32 >>)
      [] refiner = "PrequeueTechCommand" -> 13
      [] refiner = "PrebuyGodPowerCommand" -> 16

\* variant: the resign refiner leaves the flag alone
RefinerClearsEAPM_NotResign(refiner) ==
    refiner \in { "SetGatherPointCommand", "AutoScoutEventCommand",
                  "ChangeControlGroupContentsCommand", "StartUnitTransformCommand",
                  "BuildWallConnectorCommand" }

\* The Refine methods that assign baseCommand.affectsEAPM = false
RefinerClearsEAPM(refiner) ==
    refiner \in { "SetGatherPointCommand", "ResignCommand", "AutoScoutEventCommand",
                  "ChangeControlGroupContentsCommand", "StartUnitTransformCommand",
                  "BuildWallConnectorCommand" }

\* variant: offsetEnd forgets the start offset
enrichBaseCommand_NoOffset(baseCommand, byteLength) ==
    [ baseCommand EXCEPT !.byteLength = byteLength, !.offsetEnd = byteLength ]

\* enrichBaseCommand(baseCommand, byteLength)
enrichBaseCommand(baseCommand, byteLength) ==
    [ baseCommand EXCEPT !.byteLength = byteLength,
                         !.offsetEnd = baseCommand.offset + byteLength ]

\* The reads a Refine method makes after enrichBaseCommand: TRUE when none
\* of them panics.  o is baseCommand.offset.
RefinerReadsOK(refiner, baseCommand) ==
    LET o == baseCommand.offset IN
    CASE refiner = "ResearchCommand" -> CanReadUint32(o + 8)
      [] refiner = "TrainCommand" -> CanReadUint32(o + 8) /\ CanIndex(o + 18)
      [] refiner = "BuildCommand" ->
            /\ CanReadUint32(o + 8)
            /\ CanReadVector(o + 12)
            /\ baseCommand.numPreArgumentBytes > 0
      [] refiner = "ProtoPowerCommand" ->
            /\ CanReadUint32(o + 52)
            /\ CanReadVector(o + 12)
            /\ CanReadVector(o + 24)
      [] refiner = "BuySellResourcesCommand" ->
            CanReadUint32(o + 8) /\ CanReadUint32(o + 16)
      [] refiner \in { "TauntCommand", "CheatCommand", "SetFormationCommand",
                       "AutoqueueCommand", "PrequeueTechCommand" } ->
            CanReadUint32(o + 8)
      [] refiner = "TimeShiftCommand" -> baseCommand.numSourceVectors > 0
      [] OTHER -> TRUE

\* refiner(&baseCmd, data) for a registered refiner
Refine(refiner, baseCommand) ==
    LET Refined(enriched) ==
            [ status |-> IF RefinerReadsOK(refiner, baseCommand) THEN "ok" ELSE "panic",
              cmd |-> [ enriched EXCEPT
                          !.affectsEAPM = IF RefinerClearsEAPM(refiner) THEN FALSE ELSE @ ] ]
    IN  Refined(enrichBaseCommand(baseCommand, RefinerByteLength(refiner)))

-----------------------------------------------------------------------------
(* parser/gameCommandParser.go: newBaseCommand and parseGameCommand *)

\* float64(lastCommandListIdx) / 20.0, kept as the exact quotient num / den
GameTimeSecs(lastCommandListIdx) == [ num |-> lastCommandListIdx, den |-> 20 ]

\* BaseCommand{}: the zero command returned next to an error
BaseCommandZero ==
    [ commandType |-> 0, playerId |-> 0, offset |-> 0, offsetEnd |-> 0,
      byteLength |-> 0, gameTimeSecs |-> [ num |-> 0, den |-> 1 ],
      affectsEAPM |-> FALSE, numSourceUnits |-> 0, numSourceVectors |-> 0,
      numPreArgumentBytes |-> 0 ]

\* sourceUnits, sourceVectors and preArgumentBytes are kept by their lengths
newBaseCommand(o, commandType, playerId, lastCommandListIdx, numSourceUnits, numSourceVectors, numPreArgumentBytes) ==
    [ commandType |-> commandType, playerId |-> playerId, offset |-> o,
      offsetEnd |-> 0, byteLength |-> 0,
      gameTimeSecs |-> GameTimeSecs(lastCommandListIdx),
      affectsEAPM |-> TRUE, numSourceUnits |-> numSourceUnits,
      numSourceVectors |-> numSourceVectors,
      numPreArgumentBytes |-> numPreArgumentBytes ]

Fail(status) == [ status |-> status, cmd |-> BaseCommandZero ]

\* if three != uint32(3)
ThreeIsBad(three) == three # 3

\* if one != uint16(1)
OneIsBad(one) == one # 1

\* variant: the bound is off by one
PlayerIdIsBad_Above13(playerId) == playerId > 13

\* if playerId > 12
PlayerIdIsBad(playerId) == playerId > 12

\* numPreArgumentBytes := 13 + readUint16(data, offset), a uint16
NumPreArgumentBytes(raw) == (13 + raw) % 65536

\* parseGameCommand from the source-unit count on; o is the offset of the
\* 4 skipped bytes that precede it
ParseCommandBody(o, commandType, playerId, lastCommandListIdx) ==
    LET o4 == o + 4 IN
    IF ~CanReadUint16(o4) THEN Fail("panic") ELSE
    LET numUnits == readUint16(o4)
        o5 == o4 + 4
    IN
    IF numUnits > 0 /\ ~CanReadUint32(o5 + 4 * (numUnits - 1)) THEN Fail("panic") ELSE
    LET o6 == o5 + 4 * numUnits IN
    IF ~CanReadUint16(o6) THEN Fail("panic") ELSE
    LET numVectors == readUint16(o6)
        o7 == o6 + 4
    IN
    IF numVectors > 0 /\ ~CanReadVector(o7 + 12 * (numVectors - 1)) THEN Fail("panic") ELSE
    LET o8 == o7 + 12 * numVectors IN
    IF ~CanReadUint16(o8) THEN Fail("panic") ELSE
    LET numPre == NumPreArgumentBytes(readUint16(o8))
        o9 == o8 + 4
    IN
    IF numPre > 0 /\ ~CanIndex(o9 + numPre - 1) THEN Fail("panic") ELSE
    LET o10 == o9 + numPre IN
    IF ~RefinerExists(commandType) THEN Fail("RefinerMissing") ELSE
    Refine(RefinerOf(commandType),
           newBaseCommand(o10, commandType, playerId, lastCommandListIdx,
                          numUnits, numVectors, numPre))

\* parseGameCommand(data, offset, lastCommandListIdx):
\* [status, cmd], status "ok", an error's name or "panic"
parseGameCommand(o, lastCommandListIdx) ==
    IF ~CanIndex(o + 1) THEN Fail("panic") ELSE
    LET commandType == ByteAt(o + 1)
        tenBytesOffset == o
        o1 == o + 10 + (IF commandType = 14 THEN 20 ELSE 8)
    IN
    IF ~CanReadUint32(o1) THEN Fail("panic") ELSE
    LET three == readUint32(o1)
        o2 == o1 + 4
    IN
    IF ThreeIsBad(three) THEN Fail("ExpectingThree") ELSE
    IF commandType = 19
    THEN IF ~CanIndex(tenBytesOffset + 7) THEN Fail("panic")
         ELSE ParseCommandBody(o2 + 4, commandType, ByteAt(tenBytesOffset + 7),
                               lastCommandListIdx)
    ELSE IF ~CanReadUint16(o2) THEN Fail("panic") ELSE
         IF OneIsBad(readUint16(o2)) THEN Fail("ExpectingOne") ELSE
         IF ~CanReadUint16(o2 + 4) THEN Fail("panic") ELSE
         LET playerId == readUint16(o2 + 4) IN
         IF PlayerIdIsBad(playerId) THEN Fail("PlayerIdOutOfRange")
         ELSE ParseCommandBody(o2 + 8, commandType, playerId, lastCommandListIdx)

-----------------------------------------------------------------------------
(* parser/gameCommandParser.go: findFooterOffset *)

\* findFooterOffset(data, offset): [status, endOffset]
findFooterOffset(o) ==
    IF ~CanIndex(o) THEN [ status |-> "panic", endOffset |-> -1 ] ELSE
    LET extraByteCount == ByteAt(o)
        o1 == o + 1
    IN
    IF extraByteCount > 0 /\ ~CanIndex(o1 + extraByteCount - 1)
    THEN [ status |-> "panic", endOffset |-> -1 ] ELSE
    IF ~CanIndex(o1) THEN [ status |-> "panic", endOffset |-> -1 ] ELSE
    LET unk == ByteAt(o1) IN
    IF unk # 1 THEN [ status |-> "UnkNotEqualTo1", endOffset |-> -1 ] ELSE
    LET o2 == o1 + 9 IN
    IF ~CanReadUint16(o2) THEN [ status |-> "panic", endOffset |-> -1 ] ELSE
    LET oneFourthFooterLength == readUint16(o2) IN
    [ status |-> "ok", endOffset |-> o2 + 4 + 4 * oneFourthFooterLength ]


-----------------------------------------------------------------------------
(* parser/gameCommandParser.go: parseCommandList *)

\* CommandList{}: the zero value returned next to an error
CommandListZero ==
    [ entryIdx |-> 0, offsetEnd |-> 0, finalCommand |-> FALSE,
      commands |-> << >> ]

ListFail(status) == [ status |-> status, item |-> CommandListZero ]

\* variant: the mask of the error message, 224, instead of 225
EntryTypeHasBadBit_224(entryType) == BitAnd(entryType, 224) # entryType

\* if entryType&225 != entryType
EntryTypeHasBadBit(entryType) == BitAnd(entryType, 225) # entryType

\* if entryType&96 == 96
EntryTypeIs96(entryType) == BitAnd(entryType, 96) = 96

\* variant: one byte is skipped after a command
OffsetEnd_PlusOne(cmd) == cmd.offsetEnd + 1

\* func (cmd BaseCommand) OffsetEnd() int
OffsetEnd(cmd) == cmd.offsetEnd

RECURSIVE ParseCommands(_, _, _, _)
\* for i := 0; i < numItems; i++ { parseGameCommand ... }
\* [status, offset, commands]
ParseCommands(o, numItems, lastCommandListIdx, commands) ==
    IF numItems = 0
    THEN [ status |-> "ok", offset |-> o, commands |-> commands ]
    ELSE LET Parsed(r) ==
                 IF r.status # "ok"
                 THEN [ status |-> r.status, offset |-> o, commands |-> << >> ]
                 ELSE ParseCommands(OffsetEnd(r.cmd), numItems - 1,
                                    lastCommandListIdx, Append(commands, r.cmd))
         IN  Parsed(parseGameCommand(o, lastCommandListIdx))

\* variant: only the last command is looked at
ContainsResign_LastOnly(commands) ==
    Len(commands) > 0 /\ commands[Len(commands)].commandType = 16

\* for _, cmd := range commands { if cmd.CommandType() == 16 ... }
ContainsResign(commands) ==
    \E i \in 1..Len(commands) : commands[i].commandType = 16

\* parseCommandList after the command loop: the selected-unit block, the
\* resign check, the footer, the entry index and the final byte
ParseListTail(o, entryType, commands) ==
    IF BitAnd(entryType, 128) # 0 /\ ~CanIndex(o) THEN ListFail("panic") ELSE
    LET AfterFooter(f) ==
            IF f.status # "ok" THEN ListFail(f.status) ELSE
            IF ~CanReadUint32(f.endOffset) THEN ListFail("panic") ELSE
            IF ~CanIndex(f.endOffset + 4) THEN ListFail("panic") ELSE
            IF ByteAt(f.endOffset + 4) # 0 THEN ListFail("FinalByteNotZero") ELSE
            [ status |-> "ok",
              item |-> [ entryIdx |-> readUint32(f.endOffset),
                         offsetEnd |-> f.endOffset + 4 + 1,
                         finalCommand |-> FALSE, commands |-> commands ] ]
        AfterSelected(o1) ==
            IF ContainsResign(commands)
            THEN [ status |-> "ok",
                   item |-> [ entryIdx |-> -1, offsetEnd |-> o1,
                              finalCommand |-> TRUE, commands |-> commands ] ]
            ELSE AfterFooter(findFooterOffset(o1))
    IN  AfterSelected(IF BitAnd(entryType, 128) # 0
                      THEN o + 1 + 4 * ByteAt(o)
                      ELSE o)

\* parseCommandList once entryType is read; o is the list's offset
ParseListBody(o, entryType, lastCommandListIdx) ==
    LET o1 == o + 4 + 1 IN
    IF EntryTypeHasBadBit(entryType) THEN ListFail("BadEntryType") ELSE
    IF EntryTypeIs96(entryType) THEN ListFail("EntryType96") ELSE
    LET o2 == IF BitAnd(entryType, 1) = 0 THEN o1 + 4 ELSE o1 + 1 IN
    IF BitAnd(entryType, 96) = 0 THEN ParseListTail(o2, entryType, << >>) ELSE
    IF BitAnd(entryType, 32) # 0 /\ ~CanIndex(o2) THEN ListFail("panic") ELSE
    IF BitAnd(entryType, 32) = 0 /\ ~CanReadUint32(o2) THEN ListFail("panic") ELSE
    LET numItems == IF BitAnd(entryType, 32) # 0 THEN ByteAt(o2)
                    ELSE readUint32(o2)
        o3 == IF BitAnd(entryType, 32) # 0 THEN o2 + 1 ELSE o2 + 4
        AfterCommands(r) ==
            IF r.status # "ok" THEN ListFail(r.status)
            ELSE ParseListTail(r.offset, entryType, r.commands)
    IN  AfterCommands(ParseCommands(o3, numItems, lastCommandListIdx, << >>))

\* parseCommandList(data, offset, lastCommandListIdx): [status, item]
parseCommandList(o, lastCommandListIdx) ==
    IF ~CanReadUint32(o) THEN ListFail("panic")
    ELSE ParseListBody(o, readUint32(o), lastCommandListIdx)

-----------------------------------------------------------------------------
(* parser/gameCommandParser.go: parseGameCommands *)

\* the bytes at Go offsets o .. o + 7 are FOOTER
FooterAt(o) == \A k \in 1..8 : buf[o + k] = FOOTER[k]

\* bytes.Index(data[headerEndOffset:], FOOTER)
IndexOfFooter ==
    LET found == { i \in 0..(dataLen - headerEndOffset - 8) :
                       FooterAt(headerEndOffset + i) }
    IN  IF found = {} THEN -1 ELSE SetMin(found)

\* variant: the end is taken to be len(data)
AtEnd_Len(o) == o = dataLen

\* if offset == len(data)-1
AtEnd(o) == o = dataLen - 1

\* variant: only an entry index that goes backwards is refused
EntryIdxNotSequential_OnlyBackwards(entryIdx, last) == entryIdx < last + 1

\* lastIndex += 1; if item.entryIdx != lastIndex
EntryIdxNotSequential(entryIdx, last) == entryIdx # last + 1

\* variant: the new commands are put in front
AppendCommands_InFront(list, commands) == commands \o list

\* commandList = append(commandList, item.commands...)
AppendCommands(list, commands) == list \o commands


-----------------------------------------------------------------------------
(* The explored replay blobs.  A blob is laid out the way the parser reads  *)
(* it: a first footer, then command lists, each a header, its game commands,*)
(* an optional selected-unit block and a trailer (footer, entry index, final*)
(* byte).  Every field the parser checks is also given values it rejects.   *)

EncU16(v) == << v % 256, (v \div 256) % 256 >>

EncU32(v) ==
    << v % 256, (v \div 256) % 256, (v \div 65536) % 256,
       (v \div 16777216) % 256 >>

\* a game command as parseGameCommand reads it
EncCommand(c) ==
    << 0, c.type, 0, 0, 0, 0, 0, (IF c.type = 19 THEN c.player ELSE 0), 0, 0 >>
    \o Zeros(IF c.type = 14 THEN 20 ELSE 8)
    \o EncU32(c.three)
    \o (IF c.type = 19 THEN Zeros(4)
        ELSE EncU16(c.one) \o Zeros(2) \o EncU16(c.player) \o Zeros(2))
    \o Zeros(4)
    \o EncU16(c.nu) \o Zeros(2) \o Zeros(4 * c.nu)
    \o EncU16(c.nv) \o Zeros(2) \o Zeros(12 * c.nv)
    \o EncU16(c.np) \o Zeros(2) \o Zeros(NumPreArgumentBytes(c.np))
    \o [ i \in 1..c.payload |-> c.fill ]

RECURSIVE EncCommands(_)
EncCommands(cs) ==
    IF cs = << >> THEN << >> ELSE EncCommand(Head(cs)) \o EncCommands(Tail(cs))

\* a footer as findFooterOffset reads it
EncFooter(extra, unk, ofl) ==
    << extra, unk >> \o Zeros(8) \o EncU16(ofl) \o Zeros(2) \o Zeros(4 * ofl)

\* a command list as parseCommandList reads it; idx is its trailing entry
\* index
EncList(l, idx) ==
    EncU32(l.entryType) \o << 0 >>
    \o Zeros(IF BitAnd(l.entryType, 1) = 0 THEN 4 ELSE 1)
    \o (IF BitAnd(l.entryType, 32) # 0 THEN << Len(l.cmds) >> \o EncCommands(l.cmds)
        ELSE IF BitAnd(l.entryType, 64) # 0
             THEN EncU32(Len(l.cmds)) \o EncCommands(l.cmds)
             ELSE << >>)
    \o (IF BitAnd(l.entryType, 128) # 0
        THEN << l.numSel >> \o Zeros(4 * l.numSel) ELSE << >>)
    \o (IF l.trailer
        THEN EncFooter(l.extra, l.unk, l.ofl) \o EncU32(idx + l.idxDelta)
             \o << l.finalByte >>
        ELSE << >>)

RECURSIVE EncLists(_, _)
\* the k-th command list of a stream carries entry index k + 1
EncLists(ls, k) ==
    IF ls = << >> THEN << >>
    ELSE EncList(Head(ls), k + 1) \o EncLists(Tail(ls), k + 1)

\* header bytes in front of the command region
Prefix == << 7, 7, 7 >>

EncStream(ls, tail) ==
    Prefix \o EncFooter(0, 1, 0) \o EncU32(1) \o << 0 >>
    \o EncLists(ls, 1) \o Zeros(tail)

\* the payload a well-formed command of type t carries
Payload(t) ==
    IF RefinerExists(t) THEN RefinerByteLength(RefinerOf(t)) ELSE 0

Cmd(t, p) ==
    [ type |-> t, player |-> p, three |-> 3, one |-> 1,
      nu |-> 0, nv |-> 0, np |-> 0, payload |-> Payload(t), fill |-> 0 ]

List(entryType, cmds) ==
    [ entryType |-> entryType, cmds |-> cmds, numSel |-> 1, trailer |-> TRUE,
      extra |-> 0, unk |-> 1, ofl |-> 0, idxDelta |-> 0, finalByte |-> 0 ]

Research == Cmd(1, 1)
Resign == Cmd(16, 2)

SeqsUpTo(S, n) == UNION { [1..k -> S] : k \in 0..n }

\* command lists that may stand anywhere in a stream
InnerLists ==
    { List(33, << Research >>), List(1, << >>), List(192, << Research, Research >>),
      List(33, << Resign >>),
      [ List(33, << Research >>) EXCEPT !.idxDelta = 1 ] }

\* command lists that stand last in a stream
LastLists ==
    InnerLists
    \cup { List(33, cs) : cs \in SeqsUpTo({ Research, Resign }, MaxCmds) }
    \cup { List(et, << Research >>) : et \in { 0, 1, 129, 64, 65, 161, 2, 96, 97, 225, 256, 288 } }
    \cup { [ List(33, cs) EXCEPT !.trailer = FALSE ] :
               cs \in { << Resign >>, << Research, Resign >>, << Research >> } }
    \cup { [ List(161, << Resign >>) EXCEPT !.trailer = FALSE, !.numSel = n ] :
               n \in 0..1 }
    \cup { [ List(33, << Research >>) EXCEPT !.unk = 0 ],
           [ List(33, << Research >>) EXCEPT !.extra = 1 ],
           [ List(33, << Research >>) EXCEPT !.ofl = 1 ],
           [ List(33, << Research >>) EXCEPT !.finalByte = 1 ] }

\* streams of up to MaxLists command lists
Streams ==
    { << >> } \cup
    { ls \o << l >> : ls \in SeqsUpTo(InnerLists, MaxLists - 1), l \in LastLists }

PlayerIds == { 0, 1, 12, 13 }

\* single game commands: every type code with every player id, and the
\* header fields with good and bad values
CommandKinds ==
    { Cmd(t, p) : t \in 0..MaxTypeCode, p \in PlayerIds }
    \cup { [ Cmd(t, 1) EXCEPT !.fill = 255 ] : t \in 0..MaxTypeCode }
    \cup { [ Cmd(1, 1) EXCEPT !.np = n ] : n \in { 2, 300, 65523, 65535 } }
    \cup { [ type |-> t, player |-> 1, three |-> th, one |-> on,
             nu |-> nu, nv |-> nv, np |-> np, payload |-> Payload(t),
             fill |-> 0 ] :
               t \in { 1, 3, 14, 19, 68 }, th \in { 3, 4 }, on \in { 1, 2 },
               nu \in 0..1, nv \in 0..1, np \in 0..1 }

\* one command list holding a command of every registered type
AllTypesList ==
    List(64, [ i \in 1..Len(Registrations) |->
                 [ Cmd(Registrations[i][1], 1 + (i % 12)) EXCEPT !.nv = 1 ] ])

\* the explored inputs: [lists, tail, cut, heo]
Inputs ==
    { [ lists |-> ls, tail |-> t, cut |-> c, heo |-> 0 ] :
          ls \in Streams, t \in 0..MaxTail, c \in 0..MaxSlack }
    \cup { [ lists |-> << List(33, << c >> \o rest) >>, tail |-> 1, cut |-> 0,
             heo |-> 0 ] :
               c \in CommandKinds, rest \in { << >>, << Research >> } }
    \cup { [ lists |-> << AllTypesList >>, tail |-> 1, cut |-> 0, heo |-> 0 ],
           [ lists |-> << List(33, << Cmd(1, 0) >>), List(33, << Cmd(1, 13) >>) >>,
             tail |-> 1, cut |-> 0, heo |-> 0 ] }
    \cup { [ lists |-> ls, tail |-> 1, cut |-> 0, heo |-> h ] :
               ls \in SeqsUpTo({ List(33, << Research >>) }, MaxLists),
               h \in { 3, 4, 1000 } }

-----------------------------------------------------------------------------
(* The state machine: one run of parseGameCommands on one blob *)

\* parseGameCommands is not running
ParserIdle ==
    /\ buf = << >>
    /\ dataLen = 0
    /\ headerEndOffset = 0
    /\ pc = "idle"
    /\ offset = 0
    /\ lastIndex = 0
    /\ commandList = << >>
    /\ items = << >>
    /\ ret = "none"
    /\ err = "none"

\* formatRawDataToReplay is not running
FormatIdle ==
    /\ profileKeys = << >>
    /\ rawCommands = << >>
    /\ xmbData = "none"
    /\ fmtPc = "idle"
    /\ losingTeams = {}
    /\ gameLengthSecs = [ num |-> 0, den |-> 1 ]
    /\ players = << >>
    /\ winningTeam = 0
    /\ formattedReplay = "none"
    /\ fmtErr = "none"

\* Decompressl33t is not running
L33tIdle ==
    /\ compressed_array = << >>
    /\ l33tPc = "idle"
    /\ l33tOffset = 0
    /\ reader = "unset"
    /\ l33tRet = "none"
    /\ l33tErr = "none"

\* BuySellResourcesCommand.Refine is not running
RefineIdle ==
    /\ refinePc = "idle"
    /\ refineBase = "none"
    /\ refined = "none"

\* parseProfileKeys is not running
KeysIdle ==
    /\ keysNode = "none"
    /\ keysPc = "idle"
    /\ keysPosition = 0
    /\ keysI = 0
    /\ keysNum = 0
    /\ keysMap = << >>
    /\ keysItems = << >>
    /\ keysErr = "none"

\* ParseHeader is not running
TreeIdle ==
    /\ treePc = "idle"
    /\ treeNodes = << >>
    /\ treeStack = << >>

\* RenameRecFiles is not running
RenIdle ==
    /\ renEnv = << >>
    /\ renPc = "idle"
    /\ renFs = << >>
    /\ replayFiles = << >>
    /\ renTasks = << >>
    /\ errChan = << >>
    /\ wg = 0
    /\ renLog = << >>
    /\ renRet = "none"

\* every program but those named in running is idle
IdleExcept(running) ==
    /\ IF "parser" \in running THEN TRUE ELSE ParserIdle
    /\ IF "l33t" \in running THEN TRUE ELSE L33tIdle
    /\ IF "format" \in running THEN TRUE ELSE FormatIdle
    /\ IF "refine" \in running THEN TRUE ELSE RefineIdle
    /\ IF "keys" \in running THEN TRUE ELSE KeysIdle
    /\ IF "tree" \in running THEN TRUE ELSE TreeIdle
    /\ IF "rename" \in running THEN TRUE ELSE RenIdle

Init ==
    /\ \E in \in Inputs :
          /\ buf = EncStream(in.lists, in.tail)
          /\ dataLen = Len(EncStream(in.lists, in.tail)) - in.cut
          /\ headerEndOffset = in.heo
    /\ pc = "start"
    /\ offset = 0
    /\ lastIndex = 0
    /\ commandList = << >>
    /\ items = << >>
    /\ ret = "none"
    /\ err = "none"
    /\ IdleExcept({ "parser" })

\* The outcome of lines 42-53: the first command-list offset or a failure
FirstOffset ==
    IF headerEndOffset > dataLen THEN [ status |-> "panic", offset |-> 0 ] ELSE
    IF IndexOfFooter = -1 THEN [ status |-> "FooterNotFound", offset |-> 0 ] ELSE
    LET First(f) ==
            IF f.status # "ok" THEN [ status |-> f.status, offset |-> 0 ]
            ELSE [ status |-> "ok", offset |-> f.endOffset + 5 ]
    IN  First(findFooterOffset(headerEndOffset + IndexOfFooter))

\* parseGameCommands up to the loop
Start ==
    /\ pc = "start"
    /\ \E f \in { FirstOffset } :
          /\ f.status = "ok"
          /\ offset' = f.offset
    /\ lastIndex' = 1
    /\ commandList' = << >>
    /\ pc' = "loop"
    /\ UNCHANGED << buf, dataLen, headerEndOffset, items, ret, err >>
    /\ UNCHANGED notParser

\* return nil, FooterNotFoundError(offset) / return nil, err / a panic
StartFail ==
    /\ pc = "start"
    /\ \E f \in { FirstOffset } :
          /\ f.status # "ok"
          /\ ret' = IF f.status = "panic" THEN "none" ELSE "nil"
          /\ err' = f.status
    /\ pc' = "done"
    /\ UNCHANGED << buf, dataLen, headerEndOffset, offset, lastIndex,
                    commandList, items >>
    /\ UNCHANGED notParser

\* if offset == len(data)-1 { break }; return commandList, nil
LoopEnd ==
    /\ pc = "loop"
    /\ AtEnd(offset)
    /\ pc' = "done"
    /\ ret' = commandList
    /\ err' = "nil"
    /\ UNCHANGED << buf, dataLen, headerEndOffset, offset, lastIndex,
                    commandList, items >>
    /\ UNCHANGED notParser

\* parseCommandList fails: return commandList, err (or the panic unwinds)
ListFailed ==
    /\ pc = "loop"
    /\ ~AtEnd(offset)
    /\ \E r \in { parseCommandList(offset, lastIndex) } :
          /\ r.status # "ok"
          /\ ret' = IF r.status = "panic" THEN "none" ELSE commandList
          /\ err' = r.status
    /\ pc' = "done"
    /\ UNCHANGED << buf, dataLen, headerEndOffset, offset, lastIndex,
                    commandList, items >>
    /\ UNCHANGED notParser

\* item.finalCommand: append, break, return commandList, nil
ListFinal ==
    /\ pc = "loop"
    /\ ~AtEnd(offset)
    /\ \E r \in { parseCommandList(offset, lastIndex) } :
          /\ r.status = "ok"
          /\ r.item.finalCommand
          /\ commandList' = AppendCommands(commandList, r.item.commands)
          /\ items' = Append(items, [ offsetStart |-> offset, item |-> r.item ])
          /\ ret' = AppendCommands(commandList, r.item.commands)
    /\ err' = "nil"
    /\ pc' = "done"
    /\ UNCHANGED << buf, dataLen, headerEndOffset, offset, lastIndex >>
    /\ UNCHANGED notParser

\* item.entryIdx != lastIndex: return commandList, error
ListNotSequential ==
    /\ pc = "loop"
    /\ ~AtEnd(offset)
    /\ \E r \in { parseCommandList(offset, lastIndex) } :
          /\ r.status = "ok"
          /\ ~r.item.finalCommand
          /\ EntryIdxNotSequential(r.item.entryIdx, lastIndex)
          /\ commandList' = AppendCommands(commandList, r.item.commands)
          /\ items' = Append(items, [ offsetStart |-> offset, item |-> r.item ])
          /\ ret' = AppendCommands(commandList, r.item.commands)
    /\ lastIndex' = lastIndex + 1
    /\ err' = "EntryIdxNotSequential"
    /\ pc' = "done"
    /\ UNCHANGED << buf, dataLen, headerEndOffset, offset >>
    /\ UNCHANGED notParser

\* variant: the cursor is not moved to the end of the parsed list
ListNext_NoAdvance ==
    /\ pc = "loop"
    /\ ~AtEnd(offset)
    /\ \E r \in { parseCommandList(offset, lastIndex) } :
          /\ r.status = "ok"
          /\ ~r.item.finalCommand
          /\ ~EntryIdxNotSequential(r.item.entryIdx, lastIndex)
          /\ commandList' = AppendCommands(commandList, r.item.commands)
          /\ items' = Append(items, [ offsetStart |-> offset, item |-> r.item ])
    /\ lastIndex' = lastIndex + 1
    /\ UNCHANGED << buf, dataLen, headerEndOffset, pc, offset, ret, err >>
    /\ UNCHANGED notParser

\* the loop goes on: offset = item.offsetEnd
ListNext ==
    /\ pc = "loop"
    /\ ~AtEnd(offset)
    /\ \E r \in { parseCommandList(offset, lastIndex) } :
          /\ r.status = "ok"
          /\ ~r.item.finalCommand
          /\ ~EntryIdxNotSequential(r.item.entryIdx, lastIndex)
          /\ commandList' = AppendCommands(commandList, r.item.commands)
          /\ items' = Append(items, [ offsetStart |-> offset, item |-> r.item ])
          /\ offset' = r.item.offsetEnd
    /\ lastIndex' = lastIndex + 1
    /\ UNCHANGED << buf, dataLen, headerEndOffset, pc, ret, err >>
    /\ UNCHANGED notParser

Next ==
    \/ Start
    \/ StartFail
    \/ LoopEnd
    \/ ListFailed
    \/ ListFinal
    \/ ListNotSequential
    \/ ListNext

Spec == Init /\ [][Next]_vars

-----------------------------------------------------------------------------
(* parser/decoder.go: Decompressl33t, with compress/zlib and io.ReadAll
   for streams of stored blocks *)

\* []byte{0x6c, 0x33, 0x33, 0x74}
L33T == << 108, 51, 51, 116 >>

\* bytes.Index(s, sep): the first index of sep in s, or -1
BytesIndex(s, sep) ==
    LET S == { i \in 0..(Len(s) - Len(sep)) : SubSeq(s, i + 1, i + Len(sep)) = sep }
    IN  IF S = {} THEN -1 ELSE SetMin(S)

\* s[lo:hi] of a slice whose capacity is its length
SliceOK(s, lo, hi) == 0 <= lo /\ lo <= hi /\ hi <= Len(s)

\* s[lo:]
SliceFrom(s, lo) == SubSeq(s, lo + 1, Len(s))

\* zlib.NewReader: reads the two header bytes (and a dictionary id):
\* [status, rest], rest the bytes left for the inflater
ZlibNewReader(s) ==
    IF Len(s) < 2 THEN [ status |-> "ErrUnexpectedEOF", rest |-> << >> ] ELSE
    IF \/ s[1] % 16 # 8
       \/ s[1] \div 16 > 7
       \/ (s[1] * 256 + s[2]) % 31 # 0
    THEN [ status |-> "ErrHeader", rest |-> << >> ] ELSE
    IF (s[2] \div 32) % 2 = 0 THEN [ status |-> "ok", rest |-> SliceFrom(s, 2) ] ELSE
    IF Len(s) < 6 THEN [ status |-> "ErrUnexpectedEOF", rest |-> << >> ] ELSE
    IF SubSeq(s, 3, 6) # << 0, 0, 0, 1 >>
    THEN [ status |-> "ErrDictionary", rest |-> << >> ]
    ELSE [ status |-> "ok", rest |-> SliceFrom(s, 6) ]

RECURSIVE AdlerA(_)
AdlerA(d) == IF d = << >> THEN 1 ELSE (AdlerA(SubSeq(d, 1, Len(d) - 1)) + d[Len(d)]) % 65521

RECURSIVE AdlerB(_)
AdlerB(d) == IF d = << >> THEN 0 ELSE (AdlerB(SubSeq(d, 1, Len(d) - 1)) + AdlerA(d)) % 65521

\* adler32.Checksum(d) as its four big-endian bytes
Adler32(d) ==
    << AdlerB(d) \div 256, AdlerB(d) % 256, AdlerA(d) \div 256, AdlerA(d) % 256 >>

\* the zlib trailer after the last block
ZlibTrailer(s, data) ==
    IF Len(s) < 4 THEN [ status |-> "ErrUnexpectedEOF", data |-> data ] ELSE
    IF SubSeq(s, 1, 4) # Adler32(data) THEN [ status |-> "ErrChecksum", data |-> data ]
    ELSE [ status |-> "ok", data |-> data ]

RECURSIVE Inflate(_, _)
\* io.ReadAll on the zlib reader: [status, data], data the bytes delivered
\* before the end or the error
Inflate(s, data) ==
    IF Len(s) < 1 THEN [ status |-> "ErrUnexpectedEOF", data |-> data ] ELSE
    LET final == s[1] % 2 = 1
        btype == (s[1] \div 2) % 4
    IN
    IF btype = 3 THEN [ status |-> "CorruptInput", data |-> data ] ELSE
    IF btype # 0 THEN [ status |-> "huffman", data |-> data ] ELSE
    IF Len(s) < 5 THEN [ status |-> "ErrUnexpectedEOF", data |-> data ] ELSE
    LET n == s[2] + 256 * s[3]
        nn == s[4] + 256 * s[5]
    IN
    IF nn # 65535 - n THEN [ status |-> "CorruptInput", data |-> data ] ELSE
    IF Len(s) < 5 + n
    THEN [ status |-> "ErrUnexpectedEOF", data |-> data \o SliceFrom(s, 5) ] ELSE
    IF final THEN ZlibTrailer(SliceFrom(s, 5 + n), data \o SubSeq(s, 6, 5 + n))
    ELSE Inflate(SliceFrom(s, 5 + n), data \o SubSeq(s, 6, 5 + n))

\* one stored block holding d
EncStored(final, d) ==
    << IF final THEN 1 ELSE 0,
       Len(d) % 256, Len(d) \div 256,
       (65535 - Len(d)) % 256, (65535 - Len(d)) \div 256 >> \o d

\* the payloads of the explored stored blocks
Payloads == SeqsUpTo({ 65, 200 }, MaxData)

\* deflate data with the bytes it inflates to: well-formed block sequences
GoodBlocks ==
    { [ bytes |-> EncStored(TRUE, d), data |-> d ] : d \in Payloads }
    \cup { [ bytes |-> EncStored(FALSE, d) \o EncStored(TRUE, << 66 >>),
             data |-> d \o << 66 >> ] : d \in Payloads }

\* zlib bodies: good blocks with a good, bad, short or long trailer, and
\* malformed or truncated blocks
ZlibBodies ==
    UNION { { g.bytes \o t : t \in { Adler32(g.data), Adler32(g.data) \o << 9 >>,
                                      << 0, 0, 0, 0 >>, << 0 >>, << >> } } :
            g \in GoodBlocks }
    \cup { SubSeq(g.bytes, 1, Len(g.bytes) - k) : g \in GoodBlocks, k \in 1..2 }
    \cup { << >>, << 7 >>, << 1, 1, 0, 0, 0, 65 >> }

\* zlib headers: deflate with good and bad check bits, a wrong method, a
\* preset dictionary, and truncated ones
ZlibHeaders ==
    { << 120, 156 >>, << 120, 1 >>, << 120, 0 >>, << 121, 156 >>, << 120 >>,
      << 120, 187, 0, 0, 0, 1 >>, << 120, 187, 0, 0, 0, 2 >>, << 120, 187, 0 >> }

\* the explored files: bytes before the magic, the magic or not, the four
\* size bytes (or fewer), a zlib stream
L33tInputs ==
    { pre \o L33T \o Zeros(4) \o h \o b :
          pre \in { << >>, << 108, 51 >> }, h \in ZlibHeaders, b \in ZlibBodies }
    \cup { pre \o L33T \o Zeros(k) : pre \in { << >>, << 7 >> }, k \in 0..4 }
    \cup { pre \o h \o b :
          pre \in { << >>, << 108, 51, 51 >>, << 116, 51, 51, 108 >> },
          h \in { << 120, 156 >> }, b \in { << >>, EncStored(TRUE, << 65 >>) \o Adler32(<< 65 >>) } }

InitL33t ==
    /\ IdleExcept({ "l33t" })
    /\ compressed_array \in L33tInputs
    /\ l33tPc = "index"
    /\ l33tOffset = 0
    /\ reader = "unset"
    /\ l33tRet = "none"
    /\ l33tErr = "none"

\* offset := bytes.Index(compressed_array, l33t)
L33tIndex ==
    /\ l33tPc = "index"
    /\ l33tOffset' = BytesIndex(compressed_array, L33T)
    /\ l33tPc' = "header"
    /\ UNCHANGED << compressed_array, reader, l33tRet, l33tErr >>
    /\ UNCHANGED notL33t

\* header := string(compressed_array[offset : offset+4]);
\* if header != "l33t" { return nil, NotL33t(...) }
L33tHeader ==
    /\ l33tPc = "header"
    /\ IF ~SliceOK(compressed_array, l33tOffset, l33tOffset + 4)
       THEN /\ l33tPc' = "done"
            /\ l33tRet' = "none"
            /\ l33tErr' = "panic"
       ELSE IF SubSeq(compressed_array, l33tOffset + 1, l33tOffset + 4) # L33T
       THEN /\ l33tPc' = "done"
            /\ l33tRet' = "nil"
            /\ l33tErr' = "NotL33t"
       ELSE /\ l33tPc' = "reader"
            /\ UNCHANGED << l33tRet, l33tErr >>
    /\ UNCHANGED << compressed_array, l33tOffset, reader >>
    /\ UNCHANGED notL33t

\* reader, err := zlib.NewReader(bytes.NewReader(compressed_array[offset+8:]))
L33tNewReader ==
    /\ l33tPc = "reader"
    /\ IF ~SliceOK(compressed_array, l33tOffset + 8, Len(compressed_array))
       THEN /\ l33tPc' = "done"
            /\ l33tRet' = "none"
            /\ l33tErr' = "panic"
            /\ UNCHANGED reader
       ELSE \E z \in { ZlibNewReader(SliceFrom(compressed_array, l33tOffset + 8)) } :
            /\ reader' = IF z.status = "ok" THEN "open" ELSE "nil"
            /\ l33tErr' = IF z.status = "ok" THEN "nil" ELSE z.status
            /\ l33tPc' = "defer"
            /\ UNCHANGED l33tRet
    /\ UNCHANGED << compressed_array, l33tOffset >>
    /\ UNCHANGED notL33t

\* defer reader.Close(); if err != nil { return nil, err }
\* (the method value of a nil interface panics)
L33tDefer ==
    /\ l33tPc = "defer"
    /\ IF reader = "nil"
       THEN /\ l33tPc' = "done"
            /\ l33tRet' = "none"
            /\ l33tErr' = "panic"
            /\ UNCHANGED reader
       ELSE IF l33tErr # "nil"
       THEN /\ l33tPc' = "done"
            /\ l33tRet' = "nil"
            /\ reader' = "closed"
            /\ UNCHANGED l33tErr
       ELSE /\ l33tPc' = "readAll"
            /\ UNCHANGED << reader, l33tRet, l33tErr >>
    /\ UNCHANGED << compressed_array, l33tOffset >>
    /\ UNCHANGED notL33t

\* return io.ReadAll(reader), then the deferred reader.Close()
L33tReadAll ==
    /\ l33tPc = "readAll"
    /\ \E r \in { Inflate(ZlibNewReader(SliceFrom(compressed_array, l33tOffset + 8)).rest,
                          << >>) } :
          /\ l33tRet' = r.data
          /\ l33tErr' = IF r.status = "ok" THEN "nil" ELSE r.status
    /\ reader' = "closed"
    /\ l33tPc' = "done"
    /\ UNCHANGED << compressed_array, l33tOffset >>
    /\ UNCHANGED notL33t

NextL33t ==
    \/ L33tIndex
    \/ L33tHeader
    \/ L33tNewReader
    \/ L33tDefer
    \/ L33tReadAll

SpecL33t == InitL33t /\ [][NextL33t]_vars

-----------------------------------------------------------------------------
(* parser/formatter.go: formatRawDataToReplay and what it calls.           *)
(* A string is the sequence of its bytes; a float64 is the exact quotient  *)
(* num / den.  A profile key map is a function whose domain is the set of  *)
(* keys it holds; the key "gameplayer<N><field>" is the pair << N, field >>.*)

\* ProfileKey{}: what a Go map lookup yields for a key the map lacks
ProfileKeyZero == [ StringVal |-> << >>, Int32Val |-> 0 ]

\* a lookup in the profile key map
KeyLookup(keys, key) == IF key \in DOMAIN keys THEN keys[key] ELSE ProfileKeyZero

\* fmt.Sprintf("gameplayer%d", n) followed by the field name
PlayerKey(n, field) == << n, field >>

IsDigit(c) == 48 <= c /\ c <= 57

RECURSIVE DigitsValue(_)
DigitsValue(s) ==
    IF s = << >> THEN 0
    ELSE 10 * DigitsValue(SubSeq(s, 1, Len(s) - 1)) + (s[Len(s)] - 48)

\* strconv.Atoi: an optional sign, then one or more decimal digits
Atoi(s) ==
    LET signed == s # << >> /\ s[1] \in { 43, 45 }
        digits == IF signed THEN Tail(s) ELSE s
    IN  IF digits = << >> \/ \E i \in 1..Len(digits) : ~IsDigit(digits[i])
        THEN [ err |-> "ErrSyntax", value |-> 0 ]
        ELSE [ err |-> "nil",
               value |-> IF signed /\ s[1] = 45 THEN 0 - DigitsValue(digits)
                         ELSE DigitsValue(digits) ]

\* variant: every command counts as a resign
ResigningPlayers_AnyCommand(cmds) ==
    { cmds[i].playerId : i \in 1..Len(cmds) }

\* getLosingTeams, lines 166-173: the players who issued a resign command
ResigningPlayers(cmds) ==
    { cmds[i].playerId : i \in { j \in 1..Len(cmds) : cmds[j].commandType = 16 } }

\* getLosingTeams, lines 181-191: team ids of the resigning players whose
\* teamid key the map holds
TeamIdsOf(resigningPlayers, keys) ==
    { keys[PlayerKey(p, "teamid")].Int32Val :
          p \in { q \in resigningPlayers : PlayerKey(q, "teamid") \in DOMAIN keys } }

getLosingTeams(cmds, keys) ==
    IF ResigningPlayers(cmds) = {}
    THEN [ err |-> "no resign commands found", teamIds |-> {} ]
    ELSE IF TeamIdsOf(ResigningPlayers(cmds), keys) = {}
    THEN [ err |-> "could not find team IDs for resigning players", teamIds |-> {} ]
    ELSE [ err |-> "nil", teamIds |-> TeamIdsOf(ResigningPlayers(cmds), keys) ]

playerExists(keys, playerNum) ==
    KeyLookup(keys, PlayerKey(playerNum, "name")).StringVal # << >>

\* variant: every command of the player counts
CountsForEAPM_AnyCommand(command, playerNum) == command.playerId = playerNum

\* getEAPM, line 310
CountsForEAPM(command, playerNum) ==
    command.playerId = playerNum /\ command.affectsEAPM

\* float64 quotient x / n for an integer n, and n / x
FloatOverInt(x, n) == [ num |-> x.num, den |-> x.den * n ]
IntOverFloat(n, x) == [ num |-> n * x.den, den |-> x.num ]

getEAPM(playerNum, cmds, secs) ==
    LET actions == Cardinality({ i \in 1..Len(cmds) : CountsForEAPM(cmds[i], playerNum) })
        gameLengthMins == FloatOverInt(secs, 60)
    IN  IntOverFloat(actions, gameLengthMins)

\* the ReplayPlayer appended at lines 242-255 (the fields the XMB tables
\* fill are left out)
ReplayPlayer(keys, playerNum, losing, secs, cmds) ==
    LET teamId == KeyLookup(keys, PlayerKey(playerNum, "teamid")).Int32Val
    IN  [ PlayerNum |-> playerNum,
          TeamId |-> teamId,
          Name |-> KeyLookup(keys, PlayerKey(playerNum, "name")).StringVal,
          ProfileId |-> Atoi(KeyLookup(keys, PlayerKey(playerNum, "rlinkid")).StringVal).value,
          Winner |-> teamId \notin losing,
          EAPM |-> getEAPM(playerNum, cmds, secs) ]

\* the loop of getPlayers from playerNum on
RECURSIVE PlayersFrom(_, _, _, _, _)
PlayersFrom(playerNum, keys, losing, secs, cmds) ==
    IF playerNum > 12 THEN << >>
    ELSE IF ~playerExists(keys, playerNum)
    THEN PlayersFrom(playerNum + 1, keys, losing, secs, cmds)
    ELSE IF Atoi(KeyLookup(keys, PlayerKey(playerNum, "rlinkid")).StringVal).err # "nil"
    THEN PlayersFrom(playerNum + 1, keys, losing, secs, cmds)
    ELSE << ReplayPlayer(keys, playerNum, losing, secs, cmds) >>
             \o PlayersFrom(playerNum + 1, keys, losing, secs, cmds)

getPlayers(keys, losing, secs, cmds) == PlayersFrom(1, keys, losing, secs, cmds)

\* lines 48-55: the team of the first winner, else the zero value
FirstWinnerTeam(ps) ==
    IF \E i \in 1..Len(ps) : ps[i].Winner
    THEN ps[SetMin({ i \in 1..Len(ps) : ps[i].Winner })].TeamId
    ELSE 0

\* ReplayFormatted{}
ReplayFormattedZero ==
    [ GameLengthSecs |-> [ num |-> 0, den |-> 1 ], WinningTeam |-> 0, Players |-> << >> ]

-----------------------------------------------------------------------------
(* Inputs of formatRawDataToReplay *)

\* the profile keys one player can have: none; a named player of team 1 or
\* 2 with profile id "7"; one without a teamid key; one whose rlinkid is
\* "x"; one whose rlinkid is empty; one with an empty name
PlayerProfiles ==
    { << >> }
    \cup { [ f \in { "name", "rlinkid", "teamid" } |->
               IF f = "name" THEN [ StringVal |-> << 65 >>, Int32Val |-> 0 ]
               ELSE IF f = "rlinkid" THEN [ StringVal |-> << 55 >>, Int32Val |-> 0 ]
               ELSE [ StringVal |-> << >>, Int32Val |-> t ] ] : t \in { 1, 2 } }
    \cup { [ f \in { "name", "rlinkid" } |->
               IF f = "name" THEN [ StringVal |-> << 65 >>, Int32Val |-> 0 ]
               ELSE [ StringVal |-> << 55 >>, Int32Val |-> 0 ] ] }
    \cup { [ f \in { "name", "rlinkid", "teamid" } |->
               IF f = "name" THEN [ StringVal |-> << 65 >>, Int32Val |-> 0 ]
               ELSE IF f = "rlinkid" THEN [ StringVal |-> r, Int32Val |-> 0 ]
               ELSE [ StringVal |-> << >>, Int32Val |-> 1 ] ] : r \in { << 120 >>, << >> } }
    \cup { [ f \in { "name", "rlinkid", "teamid" } |->
               IF f = "name" THEN [ StringVal |-> << >>, Int32Val |-> 0 ]
               ELSE IF f = "rlinkid" THEN [ StringVal |-> << 55 >>, Int32Val |-> 0 ]
               ELSE [ StringVal |-> << >>, Int32Val |-> 2 ] ] }

\* the players the profile keys can mention
ProfiledPlayers == { 1, 3 }

\* the map holding profile prof[n] for every profiled player n
KeysOf(prof) ==
    [ k \in UNION { { PlayerKey(n, f) : f \in DOMAIN prof[n] } : n \in ProfiledPlayers }
        |-> prof[k[1]][k[2]] ]

ProfileKeyMaps == { KeysOf(prof) : prof \in [ ProfiledPlayers -> PlayerProfiles ] }

\* a decoded command as parseGameCommand and Refine leave it, kept by the
\* fields the formatter reads
DecodedCommand(commandType, playerId, lastCommandListIdx) ==
    [ commandType |-> commandType, playerId |-> playerId,
      gameTimeSecs |-> GameTimeSecs(lastCommandListIdx),
      affectsEAPM |-> ~RefinerClearsEAPM(RefinerOf(commandType)) ]

\* research, set-gather-point and resign commands of the profiled players
FmtCommandKinds == { << t, p >> : t \in { 1, 4, 16 }, p \in ProfiledPlayers }

\* Command lists parseGameCommands returns: the first split commands come
\* from command list 1 and the others from command list 3, and a resign is
\* in the last list parsed.
FmtCommandLists ==
    { cl \in UNION { { [ i \in 1..Len(ks) |->
                           DecodedCommand(ks[i][1], ks[i][2], IF i <= split THEN 1 ELSE 3) ] :
                         split \in 0..Len(ks) } :
                     ks \in SeqsUpTo(FmtCommandKinds, MaxFmtCmds) } :
        \A i \in 1..Len(cl) :
            cl[i].commandType = 16 => cl[i].gameTimeSecs = cl[Len(cl)].gameTimeSecs }

-----------------------------------------------------------------------------
(* The state machine: one call of formatRawDataToReplay *)

InitFormat ==
    /\ IdleExcept({ "format" })
    /\ profileKeys \in ProfileKeyMaps
    /\ rawCommands \in FmtCommandLists
    /\ xmbData \in { "ok", "civs", "proto" }
    /\ fmtPc = "start"
    /\ losingTeams = {}
    /\ gameLengthSecs = [ num |-> 0, den |-> 1 ]
    /\ players = << >>
    /\ winningTeam = 0
    /\ formattedReplay = "none"
    /\ fmtErr = "none"

\* lines 21-37: readBuildString and the parseXmb calls before getLosingTeams
FmtReadXmb ==
    /\ fmtPc = "start"
    /\ IF xmbData = "civs"
       THEN /\ fmtPc' = "done"
            /\ formattedReplay' = ReplayFormattedZero
            /\ fmtErr' = "XmbError"
       ELSE /\ fmtPc' = "getLosingTeams"
            /\ UNCHANGED << formattedReplay, fmtErr >>
    /\ UNCHANGED << profileKeys, rawCommands, xmbData, losingTeams,
                    gameLengthSecs, players, winningTeam >>
    /\ UNCHANGED notFormat

\* lines 39-43
FmtGetLosingTeams ==
    /\ fmtPc = "getLosingTeams"
    /\ \E r \in { getLosingTeams(rawCommands, profileKeys) } :
          IF r.err # "nil"
          THEN /\ fmtPc' = "done"
               /\ formattedReplay' = ReplayFormattedZero
               /\ fmtErr' = r.err
               /\ UNCHANGED losingTeams
          ELSE /\ fmtPc' = "gameLength"
               /\ losingTeams' = r.teamIds
               /\ UNCHANGED << formattedReplay, fmtErr >>
    /\ UNCHANGED << profileKeys, rawCommands, xmbData, gameLengthSecs,
                    players, winningTeam >>
    /\ UNCHANGED notFormat

\* line 44: indexing the last command panics on an empty list
FmtGameLength ==
    /\ fmtPc = "gameLength"
    /\ IF Len(rawCommands) = 0
       THEN /\ fmtPc' = "done"
            /\ fmtErr' = "panic"
            /\ UNCHANGED gameLengthSecs
       ELSE /\ fmtPc' = "getPlayers"
            /\ gameLengthSecs' = rawCommands[Len(rawCommands)].gameTimeSecs
            /\ UNCHANGED fmtErr
    /\ UNCHANGED << profileKeys, rawCommands, xmbData, losingTeams,
                    players, winningTeam, formattedReplay >>
    /\ UNCHANGED notFormat

\* line 45
FmtGetPlayers ==
    /\ fmtPc = "getPlayers"
    /\ players' = getPlayers(profileKeys, losingTeams, gameLengthSecs, rawCommands)
    /\ fmtPc' = "winningTeam"
    /\ UNCHANGED << profileKeys, rawCommands, xmbData, losingTeams,
                    gameLengthSecs, winningTeam, formattedReplay, fmtErr >>
    /\ UNCHANGED notFormat

\* lines 48-55
FmtWinningTeam ==
    /\ fmtPc = "winningTeam"
    /\ winningTeam' = FirstWinnerTeam(players)
    /\ fmtPc' = "finish"
    /\ UNCHANGED << profileKeys, rawCommands, xmbData, losingTeams,
                    gameLengthSecs, players, formattedReplay, fmtErr >>
    /\ UNCHANGED notFormat

\* lines 57-95: the later parseXmb calls and the record
FmtReturn ==
    /\ fmtPc = "finish"
    /\ fmtPc' = "done"
    /\ IF xmbData = "proto"
       THEN /\ formattedReplay' = ReplayFormattedZero
            /\ fmtErr' = "XmbError"
       ELSE /\ formattedReplay' =
                  [ GameLengthSecs |-> rawCommands[Len(rawCommands)].gameTimeSecs,
                    WinningTeam |-> winningTeam,
                    Players |-> players ]
            /\ fmtErr' = "nil"
    /\ UNCHANGED << profileKeys, rawCommands, xmbData, losingTeams,
                    gameLengthSecs, players, winningTeam >>
    /\ UNCHANGED notFormat

NextFormat ==
    \/ FmtReadXmb
    \/ FmtGetLosingTeams
    \/ FmtGameLength
    \/ FmtGetPlayers
    \/ FmtWinningTeam
    \/ FmtReturn

SpecFormat == InitFormat /\ [][NextFormat]_vars

-----------------------------------------------------------------------------
(* parser/gameCommands.go: BuySellResourcesCommand.Refine, with readInt32   *)
(* and readFloat of parser/decoder.go.  A float32 is kept as the sign,      *)
(* exponent and mantissa fields of its bits.                                *)

\* int32(readUint32(data, o)): the two's complement value of the four bytes
readInt32(o) ==
    LET low == ByteAt(o) + 256 * ByteAt(o + 1) + 65536 * ByteAt(o + 2)
                  + 16777216 * (ByteAt(o + 3) % 128)
    IN  IF ByteAt(o + 3) >= 128 THEN (low - 2147483647) - 1 ELSE low

\* math.Float32frombits(readUint32(data, o))
readFloat(o) ==
    [ sign |-> ByteAt(o + 3) \div 128,
      exp |-> 2 * (ByteAt(o + 3) % 128) + ByteAt(o + 2) \div 128,
      mant |-> 65536 * (ByteAt(o + 2) % 128) + 256 * ByteAt(o + 1) + ByteAt(o) ]

FloatIsNaN(f) == f.exp = 255 /\ f.mant # 0

\* f < 0: false for NaN and for both zeros
FloatLessThanZero(f) ==
    f.sign = 1 /\ ~FloatIsNaN(f) /\ ~(f.exp = 0 /\ f.mant = 0)

\* -f
FloatNeg(f) == [ f EXCEPT !.sign = 1 - @ ]

\* variant: wood and food swapped
ResourceTypeOf_Swapped(resourceId) ==
    IF resourceId = 1 THEN "food"
    ELSE IF resourceId = 2 THEN "wood"
    ELSE "unknown"

\* lines 469-477
ResourceTypeOf(resourceId) ==
    IF resourceId = 1 THEN "wood"
    ELSE IF resourceId = 2 THEN "food"
    ELSE "unknown"

\* BuySellResourcesCommand.Refine(baseCommand, data): [status, cmd]
BuySellRefine(baseCommand) ==
    LET Fields(r, quantity) ==
            IF r.status # "ok" THEN [ status |-> "panic", cmd |-> "none" ]
            ELSE [ status |-> "ok",
                   cmd |-> [ BaseCommand |-> r.cmd,
                             resourceType |-> ResourceTypeOf(readInt32(baseCommand.offset + 8)),
                             action |-> IF FloatLessThanZero(quantity) THEN "sell" ELSE "buy",
                             quantity |-> IF FloatLessThanZero(quantity)
                                          THEN FloatNeg(quantity) ELSE quantity ] ]
    IN  Fields(Refine("BuySellResourcesCommand", baseCommand),
               IF CanReadUint32(baseCommand.offset + 16)
               THEN readFloat(baseCommand.offset + 16) ELSE "none")

\* resource ids and quantities as their four little-endian bytes
ResourceIdBytes ==
    { << 0, 0, 0, 0 >>, << 1, 0, 0, 0 >>, << 2, 0, 0, 0 >>, << 3, 0, 0, 0 >>,
      << 1, 1, 0, 0 >>, << 2, 0, 0, 128 >>, << 1, 0, 0, 1 >>,
      << 255, 255, 255, 255 >> }

\* 50, -50, 0, -0, NaN, -NaN, +Inf, -Inf, -1.5 and the smallest negative
QuantityBytes ==
    { << 0, 0, 72, 66 >>, << 0, 0, 72, 194 >>, << 0, 0, 0, 0 >>, << 0, 0, 0, 128 >>,
      << 0, 0, 192, 127 >>, << 0, 0, 192, 255 >>, << 0, 0, 128, 127 >>,
      << 0, 0, 128, 255 >>, << 0, 0, 192, 191 >>, << 1, 0, 0, 128 >> }

\* the 20 payload bytes of a type 13 command: 4 int32s and a float
MarketPayloads ==
    { Zeros(8) \o r \o Zeros(4) \o q : r \in ResourceIdBytes, q \in QuantityBytes }

\* One call of the refiner on a payload that starts at offset lead of the
\* blob; cut bytes of the payload are missing at the end of the blob.
InitRefine ==
    /\ IdleExcept({ "parser", "refine" })
    /\ \E lead \in { 0, 3 }, payload \in MarketPayloads, cut \in 0..1 :
          /\ buf = SubSeq(Zeros(lead) \o payload, 1, lead + 20 - cut)
          /\ dataLen = lead + 20 - cut
          /\ refineBase = newBaseCommand(lead, 13, 1, 1, 0, 0, 13)
    /\ headerEndOffset = 0
    /\ pc = "idle"
    /\ offset = 0
    /\ lastIndex = 0
    /\ commandList = << >>
    /\ items = << >>
    /\ ret = "none"
    /\ err = "none"
    /\ refinePc = "refine"
    /\ refined = "none"

RefineBuySell ==
    /\ refinePc = "refine"
    /\ refined' = BuySellRefine(refineBase)
    /\ refinePc' = "done"
    /\ UNCHANGED << parserVars, refineBase >>
    /\ UNCHANGED notRefine

NextRefine == RefineBuySell

SpecRefine == InitRefine /\ [][NextRefine]_vars

-----------------------------------------------------------------------------
(* parser/parser.go: parseProfileKeys, KEYTYPE_PARSE_MAP and its parse     *)
(* functions, with readString and readInt16 of parser/decoder.go.  A       *)
(* string is the sequence of its UTF-16 code units (the inputs are ASCII). *)

\* readString(data, o): [status, value, endOffset]
readString(o) ==
    IF ~CanReadUint16(o) THEN [ status |-> "panic", value |-> << >>, endOffset |-> 0 ] ELSE
    LET numChars == readUint16(o)
        startOfString == o + 4
    IN  IF numChars > 0 /\ ~CanReadUint16(startOfString + 2 * (numChars - 1))
        THEN [ status |-> "panic", value |-> << >>, endOffset |-> 0 ]
        ELSE [ status |-> "ok",
               value |-> [ i \in 1..numChars |-> readUint16(startOfString + 2 * (i - 1)) ],
               endOffset |-> startOfString + 2 * numChars ]

\* int16(readUint16(data, o))
readInt16(o) == IF readUint16(o) >= 32768 THEN readUint16(o) - 65536 ELSE readUint16(o)

\* ProfileKey{} with the given fields set
NewProfileKey(type, endOffset) ==
    [ Type |-> type, EndOffset |-> endOffset, StringVal |-> << >>,
      Int16Val |-> 0, Int32Val |-> 0, BoolVal |-> FALSE ]

\* if !exists
KeytypeExists(keytype) == keytype \in { 1, 2, 3, 4, 6, 10 }

\* variant: parseGameSyncState skips 4 bytes
GameSyncStateLength_Four(position) == position + 4

\* parseGameSyncState: EndOffset
GameSyncStateLength(position) == position + 8

\* KEYTYPE_PARSE_MAP[keytype](data, position, keyname): [status, key]
ParseKeyValue(keytype, position) ==
    LET Panic == [ status |-> "panic", key |-> NewProfileKey("", 0) ]
        Ok(k) == [ status |-> "ok", key |-> k ]
        String(value) ==
            IF value.status # "ok" THEN Panic
            ELSE Ok([ NewProfileKey("string", value.endOffset) EXCEPT
                        !.StringVal = value.value ])
    IN
    CASE keytype \in { 1, 2 } ->
            IF ~CanReadUint32(position) THEN Panic
            ELSE Ok([ NewProfileKey("int32", position + 4) EXCEPT
                        !.Int32Val = readInt32(position) ])
      [] keytype = 3 -> Ok(NewProfileKey("gamesyncstate", GameSyncStateLength(position)))
      [] keytype = 4 ->
            IF ~CanReadUint16(position) THEN Panic
            ELSE Ok([ NewProfileKey("uint16", position + 2) EXCEPT
                        !.Int16Val = readInt16(position) ])
      [] keytype = 6 ->
            IF ~CanIndex(position) THEN Panic
            ELSE Ok([ NewProfileKey("bool", position + 1) EXCEPT
                        !.BoolVal = (ByteAt(position) # 0) ])
      [] keytype = 10 -> String(readString(position))

\* profileKeys[keyname.value] = profileKey
MapPut(m, k, v) == [ x \in DOMAIN m \cup { k } |-> IF x = k THEN v ELSE m[x] ]

-----------------------------------------------------------------------------
(* Inputs of parseProfileKeys *)

RECURSIVE EncU16Seq(_)
EncU16Seq(chars) ==
    IF chars = << >> THEN << >> ELSE EncU16(Head(chars)) \o EncU16Seq(Tail(chars))

\* a string as readString reads it
EncString(chars) ==
    EncU16(Len(chars)) \o << 0, 0 >> \o EncU16Seq(chars)

\* a record: the key, the type code, pad bytes and the value
EncKeyRecord(r) == EncString(r.name) \o EncU32(r.type) \o Zeros(r.pad) \o r.value

RECURSIVE EncKeyRecords(_)
EncKeyRecords(rs) ==
    IF rs = << >> THEN << >> ELSE EncKeyRecord(Head(rs)) \o EncKeyRecords(Tail(rs))

\* records of every type code of the map and of type 5, which it lacks,
\* laid out with the value right after the type code; two records with 4
\* more bytes between the type code and the value
KeyRecords ==
    { [ name |-> << 97 >>, type |-> t[1], pad |-> 0, value |-> t[2] ] :
          t \in { << 1, EncU32(7) >>, << 2, << 255, 255, 255, 255 >> >>,
                  << 3, Zeros(8) >>, << 4, << 0, 128 >> >>, << 6, << 1 >> >>,
                  << 10, EncString(<< 66, 67 >>) >>, << 5, << >> >> } }
    \cup { [ name |-> << 98 >>, type |-> 1, pad |-> 4, value |-> EncU32(7) ],
           [ name |-> << >>, type |-> 10, pad |-> 4, value |-> EncString(<< 66 >>) ] }

\* the blob: an ST node at stOffset, the key count n and the records, the
\* last cut bytes missing
KeysBlob(stOffset, n, rs, cut) ==
    LET Cut(full) == SubSeq(full, 1, Len(full) - cut)
    IN  Cut(Zeros(stOffset + 10)
            \o (IF n < 0 THEN << 255, 255, 255, 255 >> ELSE EncU32(n))
            \o EncKeyRecords(rs))

\* One call of parseProfileKeys.  The node is kept by its token and by the
\* offsets of the nodes getChildren("MP", "ST") finds under it.
InitKeys ==
    /\ IdleExcept({ "parser", "keys" })
    /\ \E rs \in SeqsUpTo(KeyRecords, MaxKeys), extra \in { -1, 0, 1 }, cut \in 0..1,
          node \in { [ token |-> "BG", children |-> << 2 >> ],
                     [ token |-> "BG", children |-> << >> ],
                     [ token |-> "BG", children |-> << 2, 40 >> ],
                     [ token |-> "FH", children |-> << 2 >> ] } :
          /\ IF node.children = << 2 >> THEN TRUE ELSE rs = << >> /\ extra = 0 /\ cut = 0
          /\ buf = KeysBlob(2, IF extra = -1 THEN -1 ELSE Len(rs) + extra, rs, cut)
          /\ dataLen = Len(KeysBlob(2, IF extra = -1 THEN -1 ELSE Len(rs) + extra, rs, cut))
          /\ keysNode = node
    /\ headerEndOffset = 0
    /\ pc = "idle"
    /\ offset = 0
    /\ lastIndex = 0
    /\ commandList = << >>
    /\ items = << >>
    /\ ret = "none"
    /\ err = "none"
    /\ keysPc = "start"
    /\ keysPosition = 0
    /\ keysI = 0
    /\ keysNum = 0
    /\ keysMap = "none"
    /\ keysItems = << >>
    /\ keysErr = "none"

\* lines 134-153
KeysStart ==
    /\ keysPc = "start"
    /\ IF keysNode.token # "BG"
       THEN /\ keysPc' = "done" /\ keysMap' = "nil" /\ keysErr' = "NotRootNodeError"
            /\ UNCHANGED << keysPosition, keysNum >>
       ELSE IF Len(keysNode.children) = 0
       THEN /\ keysPc' = "done" /\ keysMap' = "nil" /\ keysErr' = "NoChildNodesError"
            /\ UNCHANGED << keysPosition, keysNum >>
       ELSE IF Len(keysNode.children) > 1
       THEN /\ keysPc' = "done" /\ keysMap' = "nil" /\ keysErr' = "MultipleNodesError"
            /\ UNCHANGED << keysPosition, keysNum >>
       ELSE IF ~CanReadUint32(keysNode.children[1] + 10)
       THEN /\ keysPc' = "done" /\ keysErr' = "panic"
            /\ UNCHANGED << keysPosition, keysNum, keysMap >>
       ELSE /\ keysNum' = readInt32(keysNode.children[1] + 10)
            /\ keysPosition' = keysNode.children[1] + 10 + 4
            /\ keysMap' = << >>
            /\ keysPc' = "loop"
            /\ UNCHANGED keysErr
    /\ UNCHANGED << keysNode, keysI, keysItems >>
    /\ UNCHANGED parserVars
    /\ UNCHANGED notKeys

\* one iteration of the loop, lines 155-166
KeysRecord ==
    /\ keysPc = "loop"
    /\ keysI < keysNum
    /\ \E keyname \in { readString(keysPosition) } :
          IF keyname.status # "ok" \/ ~CanReadUint32(keyname.endOffset)
          THEN /\ keysPc' = "done" /\ keysErr' = "panic"
               /\ UNCHANGED << keysPosition, keysI, keysMap, keysItems >>
          ELSE IF ~KeytypeExists(readInt32(keyname.endOffset))
          THEN /\ keysPc' = "done" /\ keysErr' = "KeytypeNotFound"
               /\ keysPosition' = keyname.endOffset + 4
               /\ UNCHANGED << keysI, keysMap, keysItems >>
          ELSE \E r \in { ParseKeyValue(readInt32(keyname.endOffset), keyname.endOffset + 4) } :
               IF r.status # "ok"
               THEN /\ keysPc' = "done" /\ keysErr' = "panic"
                    /\ keysPosition' = keyname.endOffset + 4
                    /\ UNCHANGED << keysI, keysMap, keysItems >>
               ELSE /\ keysMap' = MapPut(keysMap, keyname.value, r.key)
                    /\ keysPosition' = r.key.EndOffset
                    /\ keysI' = keysI + 1
                    /\ keysItems' = Append(keysItems,
                          [ start |-> keysPosition, keyEnd |-> keyname.endOffset,
                            keytype |-> readInt32(keyname.endOffset),
                            valueStart |-> keyname.endOffset + 4, key |-> r.key ])
                    /\ UNCHANGED << keysPc, keysErr >>
    /\ UNCHANGED << keysNode, keysNum >>
    /\ UNCHANGED parserVars
    /\ UNCHANGED notKeys

\* line 168
KeysReturn ==
    /\ keysPc = "loop"
    /\ keysI >= keysNum
    /\ keysPc' = "done"
    /\ keysErr' = "nil"
    /\ UNCHANGED << keysNode, keysPosition, keysI, keysNum, keysMap, keysItems >>
    /\ UNCHANGED parserVars
    /\ UNCHANGED notKeys

NextKeys ==
    \/ KeysStart
    \/ KeysRecord
    \/ KeysReturn

SpecKeys == InitKeys /\ [][NextKeys]_vars

-----------------------------------------------------------------------------
(* parser/header.go: ParseHeader, newNode, createTree, findTwoLetterSeq.   *)
(* A token is the pair of its two bytes.                                   *)

OUTER_HIERARCHY_START_OFFSET == 257
MAX_SCAN_OFFSET == 50
DATA_OFFSET == 6

\* "BG", "J1", "PL", "BP", "MP", "GM", "GD"
NODES_WITH_SUBSTRUCTURE ==
    { << 66, 71 >>, << 74, 49 >>, << 80, 76 >>, << 66, 80 >>, << 77, 80 >>,
      << 71, 77 >>, << 71, 68 >> }

validAlphaNumericAscii(char) ==
    \/ char >= 65 /\ char <= 90
    \/ char >= 97 /\ char <= 122
    \/ char >= 48 /\ char <= 57

\* the loop of findTwoLetterSeq with position at p
RECURSIVE ScanFrom(_, _, _)
ScanFrom(p, o, upperBound) ==
    IF p >= upperBound THEN -1
    ELSE IF validAlphaNumericAscii(ByteAt(p)) /\ validAlphaNumericAscii(ByteAt(p + 1))
    THEN p
    ELSE IF (p + 1) + 1 > dataLen - 1 THEN -1
    ELSE IF p + 1 > o + MAX_SCAN_OFFSET THEN -1
    ELSE ScanFrom(p + 1, o, upperBound)

\* findTwoLetterSeq(data, offset, upperBound): the position found, -1 for
\* none, -2 for a panic
findTwoLetterSeq(o, upperBound) ==
    IF upperBound - o < 2 \/ o >= dataLen THEN -1
    ELSE IF ~CanIndex(o + 1) THEN -2
    ELSE ScanFrom(o, o, upperBound)

\* node.endOffset()
NodeEndOffset(node) == node.offset + node.size + DATA_OFFSET

\* newNode(data, offset) can read the token and the length
CanNewNode(o) == CanSlice(o, o + 2) /\ CanReadUint32(o + 2)

\* newNode(data, offset), with childNode.parent set
newNode(o, parent) ==
    [ token |-> << ByteAt(o), ByteAt(o + 1) >>, offset |-> o,
      size |-> readUint32(o + 2), parent |-> parent ]

\* the first loop of createTree, lines 134-145, from position on: the
\* children appended, and whether a read panicked
RECURSIVE ChildrenFrom(_, _, _)
ChildrenFrom(position, parent, end) ==
    IF position >= end THEN [ status |-> "ok", children |-> << >> ] ELSE
    LET Found(loc) ==
            IF loc = -1 THEN [ status |-> "ok", children |-> << >> ] ELSE
            IF loc = -2 \/ ~CanNewNode(loc) THEN [ status |-> "panic", children |-> << >> ]
            ELSE LET Rest(r) == [ r EXCEPT !.children = << newNode(loc, parent) >> \o @ ]
                 IN  Rest(ChildrenFrom(NodeEndOffset(newNode(loc, parent)), parent, end))
    IN  Found(findTwoLetterSeq(position, end))

-----------------------------------------------------------------------------
(* Inputs of ParseHeader *)

EncNode(token, size, content) == token \o EncU32(size) \o content

\* what the root node can hold: an ST leaf; an MP node holding an ST leaf;
\* an XN leaf whose length runs 20 bytes past its data; a GM node holding
\* such a leaf; a zero byte
TreePieces ==
    { EncNode(<< 83, 84 >>, 2, Zeros(2)),
      EncNode(<< 77, 80 >>, 8, EncNode(<< 83, 84 >>, 2, Zeros(2))),
      EncNode(<< 88, 78 >>, 20, << >>),
      EncNode(<< 71, 77 >>, 6, EncNode(<< 88, 78 >>, 20, << >>)),
      << 0 >> }

RECURSIVE Concat(_)
Concat(ss) == IF ss = << >> THEN << >> ELSE Head(ss) \o Concat(Tail(ss))

\* the blob: 257 bytes, then a BG root node over the pieces whose length
\* field is off by delta, then tail zero bytes
TreeBlob(pieces, delta, tail) ==
    Zeros(OUTER_HIERARCHY_START_OFFSET)
    \o EncNode(<< 66, 71 >>, Len(Concat(pieces)) + delta, Concat(pieces))
    \o Zeros(tail)

InitTree ==
    /\ IdleExcept({ "parser", "tree" })
    /\ \E pieces \in SeqsUpTo(TreePieces, MaxPieces), delta \in { 0, 1, 7 },
          tail \in { 0, 3, 30 } :
          /\ buf = TreeBlob(pieces, delta, tail)
          /\ dataLen = Len(TreeBlob(pieces, delta, tail))
    /\ headerEndOffset = 0
    /\ pc = "idle"
    /\ offset = 0
    /\ lastIndex = 0
    /\ commandList = << >>
    /\ items = << >>
    /\ ret = "none"
    /\ err = "none"
    /\ treePc = "start"
    /\ treeNodes = << >>
    /\ treeStack = << >>

\* ParseHeader, lines 51-53: the root node, and the call of createTree on it
TreeStart ==
    /\ treePc = "start"
    /\ IF ~CanNewNode(OUTER_HIERARCHY_START_OFFSET)
       THEN /\ treePc' = "panic"
            /\ UNCHANGED << treeNodes, treeStack >>
       ELSE /\ treeNodes' = << newNode(OUTER_HIERARCHY_START_OFFSET, 0) >>
            /\ treeStack' = << 1 >>
            /\ treePc' = "createTree"
    /\ UNCHANGED parserVars
    /\ UNCHANGED notTree

\* createTree(data, parentNode) for the node on top of the stack: its
\* children are appended, and createTree is then called, first child first,
\* on those whose token is in NODES_WITH_SUBSTRUCTURE
TreeCreate ==
    /\ treePc = "createTree"
    /\ treeStack # << >>
    /\ \E r \in { ChildrenFrom(treeNodes[Head(treeStack)].offset + 6, Head(treeStack),
                               NodeEndOffset(treeNodes[Head(treeStack)])) } :
          IF r.status # "ok"
          THEN /\ treePc' = "panic"
               /\ UNCHANGED << treeNodes, treeStack >>
          ELSE /\ treeNodes' = treeNodes \o r.children
               /\ treeStack' =
                     SelectSeq([ i \in 1..Len(r.children) |-> Len(treeNodes) + i ],
                               LAMBDA n : (treeNodes \o r.children)[n].token
                                             \in NODES_WITH_SUBSTRUCTURE)
                     \o Tail(treeStack)
               /\ UNCHANGED treePc
    /\ UNCHANGED parserVars
    /\ UNCHANGED notTree

\* ParseHeader, line 55
TreeReturn ==
    /\ treePc = "createTree"
    /\ treeStack = << >>
    /\ treePc' = "done"
    /\ UNCHANGED << treeNodes, treeStack >>
    /\ UNCHANGED parserVars
    /\ UNCHANGED notTree

NextTree ==
    \/ TreeStart
    \/ TreeCreate
    \/ TreeReturn

SpecTree == InitTree /\ [][NextTree]_vars

-----------------------------------------------------------------------------
(* RenameRecFiles (src/unnamed/part_006).  A file name is the sequence of   *)
(* the strings it is concatenated from; all files are in the directory     *)
(* given.  A file's content is a number, and Parse is known by its outcome *)
(* on each content.                                                        *)

\* contents 1 and 2 are different replays of the same players
RenContents == 1..5

\* the names of replay.Players, in order
ReplayPlayerNames(content) ==
    IF content \in { 1, 2 } THEN << "A", "B" >> ELSE << "C", "D" >>

\* Parse(inputFilepath, true, false, isGzip) on a file of this content
ParseOutcome(content) ==
    IF content = 4 THEN "error" ELSE IF content = 5 THEN "panic" ELSE "ok"

\* strings.Join(playerNames, sep)
RECURSIVE Join(_, _)
Join(names, sep) ==
    IF names = << >> THEN << >>
    ELSE IF Len(names) = 1 THEN << names[1] >>
    ELSE << names[1], sep >> \o Join(Tail(names), sep)

\* lines 16-19
ExtensionOf(isGzip) == IF isGzip THEN ".mythrec.gz" ELSE ".mythrec"

\* strings.HasSuffix(path, extension); ".mythrec.gz" does not end in ".mythrec"
HasExtension(path, extension) == path[Len(path)] = extension

\* lines 57-75: newFilepath, relative to dir
TargetPath(playerNames, prefix, suffix, extension) ==
    (IF prefix # "" THEN << prefix >> ELSE << >>)
    \o Join(playerNames, "_vs_")
    \o (IF suffix # "" THEN << suffix >> ELSE << >>)
    \o << extension >>

\* variant: os.Rename leaves an existing target alone
OsRename_KeepExisting(fs, old, new) ==
    IF old = new \/ new \in DOMAIN fs THEN fs
    ELSE [ q \in (DOMAIN fs \ { old }) \cup { new } |->
             IF q = new THEN fs[old] ELSE fs[q] ]

\* os.Rename(old, new) of an existing file old onto a path that is not a
\* directory: new is replaced if it exists
OsRename(fs, old, new) ==
    IF old = new THEN fs
    ELSE [ q \in (DOMAIN fs \ { old }) \cup { new } |->
             IF q = new THEN fs[old] ELSE fs[q] ]

\* variant: the error channel is unbuffered
ErrChanCapacity_Unbuffered == 0 * Len(replayFiles)

\* line 40: make(chan error, len(replayFiles))
ErrChanCapacity == Len(replayFiles)

\* the paths a directory can hold, in the lexical order of filepath.Walk
RenPathOrder ==
    << << "A", "_vs_", "B", ".mythrec" >>, << "rec1", ".mythrec" >>,
       << "rec2", ".mythrec" >>, << "rec3", ".mythrec.gz" >> >>

RenPaths == { RenPathOrder[i] : i \in 1..Len(RenPathOrder) }

\* a directory whose name is a target name
RenDirPath == << "C", "_vs_", "D", ".mythrec" >>

RenTaskZero(inputFilepath) ==
    [ pc |-> "parse", input |-> inputFilepath, target |-> << >>, err |-> "none",
      moved |-> 0 ]

InitRen ==
    /\ IdleExcept({ "rename" })
    /\ \E S \in SUBSET RenPaths, isGzip \in BOOLEAN, prefix \in { "", "new_" },
          walkFails \in BOOLEAN, dirs \in SUBSET { RenDirPath } :
          /\ Cardinality(S) <= MaxFiles
          /\ \E files \in [ S -> RenContents ] :
                /\ renFs = files
                /\ renEnv = [ isGzip |-> isGzip, prefix |-> prefix, suffix |-> "",
                              walkFails |-> walkFails, dirs |-> dirs, files |-> files ]
    /\ renPc = "walk"
    /\ replayFiles = << >>
    /\ renTasks = << >>
    /\ errChan = << >>
    /\ wg = 0
    /\ renLog = << >>
    /\ renRet = "none"

\* lines 21-37: the walk; its error is returned at once
RenWalk ==
    /\ renPc = "walk"
    /\ IF renEnv.walkFails
       THEN /\ renPc' = "done"
            /\ renRet' = "walk error"
            /\ UNCHANGED replayFiles
       ELSE /\ replayFiles' =
                  SelectSeq(RenPathOrder,
                            LAMBDA path : /\ path \in DOMAIN renFs
                                          /\ HasExtension(path, ExtensionOf(renEnv.isGzip)))
            /\ renPc' = "spawn"
            /\ UNCHANGED renRet
    /\ UNCHANGED << renEnv, renFs, renTasks, errChan, wg, renLog >>
    /\ UNCHANGED notRen

\* lines 44-48, 86: wg.Add(1) and the go statement for the next file
RenSpawn ==
    /\ renPc = "spawn"
    /\ Len(renTasks) < Len(replayFiles)
    /\ wg' = wg + 1
    /\ renTasks' = Append(renTasks, RenTaskZero(replayFiles[Len(renTasks) + 1]))
    /\ UNCHANGED << renEnv, renPc, renFs, replayFiles, errChan, renLog, renRet >>
    /\ UNCHANGED notRen

\* lines 51-78 of task t: Parse reads the file as it is now; a panic in a
\* goroutine ends the process; on success the new path is computed
TaskParse(t) ==
    /\ renPc \in { "spawn" }
    /\ renTasks[t].pc = "parse"
    /\ \E outcome \in { IF renTasks[t].input \in DOMAIN renFs
                        THEN ParseOutcome(renFs[renTasks[t].input]) ELSE "error" } :
          IF outcome = "panic"
          THEN /\ renPc' = "crashed"
               /\ UNCHANGED renTasks
          ELSE /\ UNCHANGED renPc
               /\ renTasks' =
                     [ renTasks EXCEPT ![t] =
                         IF outcome = "error"
                         THEN [ @ EXCEPT !.pc = "send", !.err = "parse" ]
                         ELSE [ @ EXCEPT !.pc = "rename",
                                  !.target = TargetPath(ReplayPlayerNames(renFs[renTasks[t].input]),
                                                        renEnv.prefix, renEnv.suffix,
                                                        ExtensionOf(renEnv.isGzip)) ] ]
    /\ UNCHANGED << renEnv, renFs, replayFiles, errChan, wg, renLog, renRet >>
    /\ UNCHANGED notRen

\* lines 53-54 and 81-82 of task t: the send on errChan, which blocks while
\* the buffer is full, then the return with the deferred wg.Done()
TaskSend(t) ==
    /\ renPc \in { "spawn" }
    /\ renTasks[t].pc = "send"
    /\ Len(errChan) < ErrChanCapacity
    /\ errChan' = Append(errChan, [ task |-> t, err |-> renTasks[t].err ])
    /\ renTasks' = [ renTasks EXCEPT ![t].pc = "done" ]
    /\ wg' = wg - 1
    /\ UNCHANGED << renEnv, renPc, renFs, replayFiles, renLog, renRet >>
    /\ UNCHANGED notRen

\* lines 80-85 of task t: os.Rename, which fails when the old path is gone
\* or the new path is a directory; on success the task returns
TaskRename(t) ==
    /\ renPc \in { "spawn" }
    /\ renTasks[t].pc = "rename"
    /\ IF renTasks[t].input \notin DOMAIN renFs \/ renTasks[t].target \in renEnv.dirs
       THEN /\ renTasks' = [ renTasks EXCEPT ![t].pc = "send", ![t].err = "rename" ]
            /\ UNCHANGED << renFs, renLog, wg >>
       ELSE /\ renFs' = OsRename(renFs, renTasks[t].input, renTasks[t].target)
            /\ renLog' = Append(renLog, t)
            /\ renTasks' = [ renTasks EXCEPT ![t].pc = "done",
                                             ![t].moved = renFs[renTasks[t].input] ]
            /\ wg' = wg - 1
    /\ UNCHANGED << renEnv, renPc, replayFiles, errChan, renRet >>
    /\ UNCHANGED notRen

\* lines 89-99: after the loop, wg.Wait() returns once the counter is zero;
\* the channel is closed and its first error, if any, is returned
RenReturn ==
    /\ renPc = "spawn"
    /\ Len(renTasks) = Len(replayFiles)
    /\ wg = 0
    /\ renPc' = "done"
    /\ renRet' = IF errChan = << >> THEN "nil" ELSE Head(errChan).err
    /\ UNCHANGED << renEnv, renFs, replayFiles, renTasks, errChan, wg, renLog >>
    /\ UNCHANGED notRen

NextRen ==
    \/ RenWalk
    \/ RenSpawn
    \/ \E t \in 1..Len(renTasks) : TaskParse(t)
    \/ \E t \in 1..Len(renTasks) : TaskSend(t)
    \/ \E t \in 1..Len(renTasks) : TaskRename(t)
    \/ RenReturn

SpecRen == InitRen /\ [][NextRen]_vars

-----------------------------------------------------------------------------
(* Properties *)

LastItem == items[Len(items)]

\* C1: the entry_idx values of the successively parsed non-final command
\* lists are 2, 3, 4, ...; the first list that breaks this ends the parse
\* with the non-sequential-entry-index error, and no later list is parsed.
C1_EntryIdxSequential ==
    /\ \A k \in 1..Len(items) :
          ~items[k].item.finalCommand =>
             \/ items[k].item.entryIdx = k + 1
             \/ k = Len(items) /\ pc = "done" /\ err = "EntryIdxNotSequential"
    /\ err = "EntryIdxNotSequential" =>
          /\ Len(items) > 0
          /\ ~LastItem.item.finalCommand
          /\ LastItem.item.entryIdx # Len(items) + 1

\* a first list with a wrong entry index, with a further list after it
C1_Witness ==
    /\ Len(items) = 1
    /\ err = "EntryIdxNotSequential"
    /\ items[1].item.entryIdx = 3
    /\ items[1].item.offsetEnd + 20 < dataLen

\* C2 (as claimed): game_time_secs of a command is entry_idx / 20.0 for the
\* entry_idx of the command list that contains the command.
C2_GameTimeIsOwnEntryIdx ==
    \A k \in 1..Len(items) :
       \A i \in 1..Len(items[k].item.commands) :
          LET t == items[k].item.commands[i].gameTimeSecs IN
          t.num * 20 = items[k].item.entryIdx * t.den

\* bytes from a game command's first byte to its payload, by the header
\* layout and the counts the command captured
HeaderLen(cmd) ==
    10 + (IF cmd.commandType = 14 THEN 20 ELSE 8) + 4
       + (IF cmd.commandType = 19 THEN 4 ELSE 8) + 4
       + 4 + 4 * cmd.numSourceUnits
       + 4 + 12 * cmd.numSourceVectors
       + 4 + cmd.numPreArgumentBytes

\* C3: every refined command has offset_end = offset + byte_length, offset
\* being the start of the payload (right after the command's header, whose
\* second byte is the type byte).
C3_OffsetEnd ==
    \A i \in 1..Len(commandList) :
       LET c == commandList[i] IN
       /\ c.offsetEnd = c.offset + c.byteLength
       /\ ByteAt(c.offset - HeaderLen(c) + 1) = c.commandType

\* a list of 33 commands, each with a source vector, all refined
C3_Witness ==
    /\ Len(commandList) = 33
    /\ \A i \in 1..33 : commandList[i].numSourceVectors = 1


\* C4 (as claimed): the payload widths of the specification's table
C4_ClaimedWidths ==
    (0 :> 48) @@ (1 :> 12) @@ (2 :> 18) @@ (3 :> 52) @@ (4 :> 36) @@ (7 :> 9)
    @@ (9 :> 8) @@ (12 :> 57) @@ (13 :> 20) @@ (14 :> 8) @@ (16 :> 21)
    @@ (18 :> 12) @@ (19 :> 25) @@ (23 :> 14) @@ (25 :> 15) @@ (26 :> 13)
    @@ (34 :> 8) @@ (35 :> 12) @@ (37 :> 13) @@ (38 :> 12) @@ (41 :> 41)
    @@ (44 :> 16) @@ (45 :> 20) @@ (48 :> 16) @@ (53 :> 12) @@ (55 :> 20)
    @@ (66 :> 12) @@ (67 :> 9) @@ (68 :> 32) @@ (69 :> 35) @@ (71 :> 8)
    @@ (72 :> 13) @@ (75 :> 16)

\* the same table with the four widths the refiners compute differently
C4_AmendedWidths ==
    [ C4_ClaimedWidths EXCEPT ![0] = 44, ![4] = 32, ![25] = 14, ![69] = 36 ]

\* C4 (as claimed): every refined command has the byte_length of the
\* specification's table (0->48, 4->36, 25->15, 69->35 among them).
C4_WidthsAsClaimed ==
    \A i \in 1..Len(commandList) :
       commandList[i].byteLength = C4_ClaimedWidths[commandList[i].commandType]

\* C4 (amended): for every registered type code the refiner sets byte_length
\* to a fixed width, whatever the payload bytes: the table of the claim with
\* 0->44, 4->32, 25->14 and 69->36.
C4_FixedWidths ==
    \A i \in 1..Len(commandList) :
       /\ commandList[i].commandType \in DOMAIN C4_AmendedWidths
       /\ commandList[i].byteLength = C4_AmendedWidths[commandList[i].commandType]

\* one command of each of the 33 registered types has been refined
C4_Witness ==
    { commandList[i].commandType : i \in 1..Len(commandList) }
        = DOMAIN C4_AmendedWidths

\* the u32 at o, if there is one, is below 2^31 (the range of the model's
\* integers)
Below2to31(o) == CanReadUint32(o) => ByteAt(o + 3) < 128

\* the offset of the u32 "three" of a game command at o
ThreeOffset(o) == o + 10 + (IF ByteAt(o + 1) = 14 THEN 20 ELSE 8)

\* the 33 type codes of the claim
C5_Codes ==
    { 0, 1, 2, 3, 4, 7, 9, 12, 13, 14, 16, 18, 19, 23, 25, 26, 34, 35, 37,
      38, 41, 44, 45, 48, 53, 55, 66, 67, 68, 69, 71, 72, 75 }

\* C5: every command of the returned list has one of the 33 registered type
\* codes; parseGameCommand on a game command whose type byte is none of them
\* yields no command: it fails (with the refiner-missing error, unless an
\* earlier header check or a read past the blob fails first).
C5_OnlyRegisteredTypes ==
    /\ \A i \in 1..Len(commandList) : commandList[i].commandType \in C5_Codes
    /\ pc = "start" =>
          \A o \in 0..(dataLen - 2) :
             (ByteAt(o + 1) \notin C5_Codes /\ Below2to31(ThreeOffset(o))) =>
                LET r == parseGameCommand(o, 1) IN
                /\ r.status \in { "RefinerMissing", "ExpectingThree", "ExpectingOne",
                                  "PlayerIdOutOfRange", "panic" }
                /\ r.cmd = BaseCommandZero

\* a parse stopped by a game command of an unregistered type
C5_Witness ==
    pc = "done" /\ err = "RefinerMissing" /\ ret = << >>

\* C6 (as claimed): every decoded command whose type is not 19 has
\* 1 <= player_id <= 12.
C6_PlayerIdFrom1 ==
    \A i \in 1..Len(commandList) :
       commandList[i].commandType # 19 =>
          1 <= commandList[i].playerId /\ commandList[i].playerId <= 12

\* C6 (amended): every decoded command whose type is not 19 has
\* 0 <= player_id <= 12; a standard-header player id above 12 makes
\* parseGameCommand fail with the player-id-out-of-range error.
C6_PlayerIdAtMost12 ==
    /\ \A i \in 1..Len(commandList) :
          commandList[i].commandType # 19 =>
             0 <= commandList[i].playerId /\ commandList[i].playerId <= 12
    /\ pc = "start" =>
          \A o \in 0..(dataLen - 2) :
             LET h == ThreeOffset(o) IN
             ( /\ ByteAt(o + 1) # 19
               /\ h + 10 <= Cap
               /\ Below2to31(h)
               /\ readUint32(h) = 3
               /\ readUint16(h + 4) = 1
               /\ readUint16(h + 8) > 12 )
             => parseGameCommand(o, 1) = Fail("PlayerIdOutOfRange")

\* a command of player 0 was returned by an earlier list and a command of
\* player 13 stopped the parse
C6_Witness ==
    /\ pc = "done"
    /\ err = "PlayerIdOutOfRange"
    /\ Len(commandList) = 1
    /\ commandList[1].playerId = 0
    /\ commandList[1].commandType # 19

C7_BitSet(v, k) == (v \div (2 ^ k)) % 2 = 1

\* a bit outside {1, 32, 64, 128} is set, or bits 32 and 64 are both set
C7_Rejected(entryType) ==
    \/ entryType >= 256
    \/ \E k \in 1..4 : C7_BitSet(entryType, k)
    \/ C7_BitSet(entryType, 5) /\ C7_BitSet(entryType, 6)

\* the offset of the last byte of the blob that is 128 or more (-1: none)
C7_LastBigByte ==
    LET S == { j \in 0..(Cap - 1) : ByteAt(j) >= 128 } IN
    IF S = {} THEN -1 ELSE CHOOSE x \in S : \A y \in S : y <= x

\* C7: parseCommandList rejects, with a bad-entry-type error and without
\* parsing any game command, exactly the entry types that have a bit outside
\* {1, 32, 64, 128} set or have bits 32 and 64 both set (entry types below
\* 2^31, read at every offset of the blob; an accepted list is parsed on
\* when every u32 after its entry type is below 2^31 too).
C7_EntryTypeCheck ==
    pc = "start" =>
       LET last == C7_LastBigByte IN
       \A o \in 0..(Cap - 4) :
          Below2to31(o) =>
             LET r == parseCommandList(o, 1) IN
             IF C7_Rejected(readUint32(o))
             THEN /\ r.status \in { "BadEntryType", "EntryType96" }
                  /\ r.item = CommandListZero
             ELSE last < o + 4 =>
                     r.status \notin { "BadEntryType", "EntryType96" }

\* a second command list rejected for its entry type, after a good one
C7_Witness ==
    /\ pc = "done"
    /\ err \in { "BadEntryType", "EntryType96" }
    /\ Len(items) = 1
    /\ C7_Rejected(readUint32(items[1].item.offsetEnd))

C8_HasType16(commands) ==
    \E i \in 1..Len(commands) : commands[i].commandType = 16

C9_CleanEnd ==
    [][ (pc = "loop" /\ offset = dataLen - 1) =>
            /\ pc' = "done"
            /\ err' = "nil"
            /\ ret' = commandList
            /\ commandList' = commandList ]_vars

\* a stream that ended at len(data) - 1 with commands and no resign
C9_Witness ==
    /\ pc = "done"
    /\ offset = dataLen - 1
    /\ err = "nil"
    /\ Len(ret) > 0
    /\ ~C8_HasType16(ret)

RECURSIVE C10_Flatten(_)
C10_Flatten(its) ==
    IF its = << >> THEN << >>
    ELSE Head(its).item.commands \o C10_Flatten(Tail(its))

\* C10: the flattened command list holds the commands in stream order
\* (command-list order, then order inside the list), and game_time_secs
\* never decreases from one command to the next.
C10_StreamOrder ==
    /\ commandList = C10_Flatten(items)
    /\ \A i \in 1..Len(commandList) : \A j \in 1..Len(commandList) :
          i < j =>
             /\ commandList[i].offset < commandList[j].offset
             /\ commandList[i].gameTimeSecs.num * commandList[j].gameTimeSecs.den
                   <= commandList[j].gameTimeSecs.num * commandList[i].gameTimeSecs.den

\* commands of two lists, with different game times
C10_Witness ==
    /\ Len(items) = 2
    /\ Len(items[1].item.commands) = 2
    /\ Len(commandList) >= 3
    /\ commandList[1].gameTimeSecs # commandList[Len(commandList)].gameTimeSecs

\* C11 (as claimed): Decompressl33t on an input that does not contain the
\* four bytes l33t returns the NotL33t error and no data.
C11_NotL33tReturned ==
    (l33tPc = "done" /\ BytesIndex(compressed_array, L33T) = -1) =>
       (l33tErr = "NotL33t" /\ l33tRet = "nil")

\* C12 (as claimed): when parseGameCommands fails with an error it returns
\* no commands, also when command lists were parsed before the failure
\* (a failure before the loop, where lastIndex is not yet set, returns nil).
C12_NoPartialResult ==
    (pc = "done" /\ err \notin { "nil", "panic" } /\ lastIndex > 0) =>
       ret = << >>

\* C13 (as claimed): for a header_end_offset within the data,
\* parseGameCommands ends by returning a command list or a typed error; no
\* read at an index outside [0, len(data)) makes it panic.
C13_NoOutOfRangeRead ==
    headerEndOffset <= dataLen => err # "panic"

\* C14: the cursor of parseGameCommands strictly increases with every
\* successfully parsed command list (each offsetEnd is greater than the
\* list's start offset); when the loop goes on the new cursor is at most
\* len(data), so the loop runs at most len(data) times on an input.
C14_LoopTerminates ==
    /\ [](\A k \in 1..Len(items) : items[k].item.offsetEnd > items[k].offsetStart)
    /\ [](Len(items) <= dataLen)
    /\ [][ (pc = "loop" /\ pc' = "loop") =>
              (offset < offset' /\ offset' <= dataLen) ]_vars

\* two command lists parsed one after the other, the second starting where
\* the first ended
C14_Witness ==
    /\ Len(items) = 2
    /\ pc = "loop"
    /\ items[2].offsetStart = items[1].item.offsetEnd
    /\ offset = items[2].item.offsetEnd

\* the first byte of a game command, counted back from its payload
C15_CommandStart(cmd) == cmd.offset - HeaderLen(cmd)

C16_FieldOffset(cmd) == cmd.offset - cmd.numPreArgumentBytes - 4

\* C16 (as claimed): for every value of the u16 num_preargs field the
\* pre-argument region is 13 + num_preargs bytes long, so the payload starts
\* 13 + num_preargs bytes after the 4-byte field.
C16_PreArgumentRegion ==
    \A i \in 1..Len(commandList) :
       LET c == commandList[i]
           n == readUint16(C16_FieldOffset(c))
       IN  /\ c.numPreArgumentBytes = 13 + n
           /\ c.offset = C16_FieldOffset(c) + 4 + 13 + n

\* C17: a decoded command has affects_eapm = false exactly when its type
\* code is one of 4, 16, 35, 37, 53, 69; for every other registered type it
\* is true.
C17_AffectsEAPM ==
    \A k \in 1..Len(items) : \A i \in 1..Len(items[k].item.commands) :
       LET c == items[k].item.commands[i] IN
       c.affectsEAPM <=> c.commandType \notin { 4, 16, 35, 37, 53, 69 }

\* one command of every registered type was decoded: six of them do not
\* count, twenty-seven do
C17_Witness ==
    /\ Len(commandList) = 33
    /\ Cardinality({ i \in 1..33 : ~commandList[i].affectsEAPM }) = 6
    /\ Cardinality({ commandList[i].commandType : i \in 1..33 }) = 33

-----------------------------------------------------------------------------
(* The output record of formatRawDataToReplay *)

\* a record was returned with a nil error
RecordProduced == fmtPc = "done" /\ fmtErr = "nil"

\* The team ids of the players that issued a resign command: the TeamId the
\* record gives a listed player, and the teamid profile key of any other.
C18_ResigningTeamIds ==
    { formattedReplay.Players[i].TeamId :
          i \in { j \in 1..Len(formattedReplay.Players) :
                    formattedReplay.Players[j].PlayerNum \in ResigningPlayers(rawCommands) } }
    \cup { profileKeys[PlayerKey(p, "teamid")].Int32Val :
          p \in { q \in ResigningPlayers(rawCommands) :
                    PlayerKey(q, "teamid") \in DOMAIN profileKeys } }

\* C18: in the output record a player has Winner = true exactly when the
\* player's team id is not the team id of any player that issued a resign
\* (type 16) command; the losing teams are the team ids of all resigning
\* players.
C18_WinnerIffNoResigningTeam ==
    RecordProduced =>
        /\ losingTeams = C18_ResigningTeamIds
        /\ \A i \in 1..Len(formattedReplay.Players) :
              formattedReplay.Players[i].Winner
                  <=> formattedReplay.Players[i].TeamId \notin C18_ResigningTeamIds

\* C19: the output player list contains player N, for N in 1..12 and in
\* ascending N, exactly when the profile key gameplayer{N}name holds a
\* non-empty string.
C19_PlayersListed ==
    RecordProduced =>
        /\ { formattedReplay.Players[i].PlayerNum : i \in 1..Len(formattedReplay.Players) }
              = { n \in 1..12 :
                    /\ PlayerKey(n, "name") \in DOMAIN profileKeys
                    /\ profileKeys[PlayerKey(n, "name")].StringVal # << >> }
        /\ \A i \in 1..Len(formattedReplay.Players) - 1 :
              formattedReplay.Players[i].PlayerNum < formattedReplay.Players[i + 1].PlayerNum

\* the last command of the command list
C20_LastCommand == rawCommands[Len(rawCommands)]

\* the number of decoded commands of player n that affect EAPM
C20_Actions(n) ==
    Cardinality({ i \in 1..Len(rawCommands) :
                    rawCommands[i].playerId = n /\ rawCommands[i].affectsEAPM })

C29_WinningTeamIsAWinner ==
    RecordProduced =>
        /\ \E i \in 1..Len(formattedReplay.Players) :
              /\ formattedReplay.Players[i].Winner
              /\ formattedReplay.Players[i].TeamId = formattedReplay.WinningTeam
        /\ formattedReplay.WinningTeam \notin C18_ResigningTeamIds

\* the command list holds no resign command
C30_NoResign == \A i \in 1..Len(rawCommands) : rawCommands[i].commandType # 16

\* C30: formatRawDataToReplay produces a record only if the command list
\* contains at least one resign (type 16) command: for a command list
\* without a resign, the empty list and the list of a cleanly ended stream
\* included, the call never gets to index the last element of the list and
\* returns the zero record with the "no resign commands found" error (or
\* with the error of a reader that failed before getLosingTeams was called).
C30_NoResignNoRecord ==
    (fmtPc # "idle" /\ C30_NoResign) =>
        /\ fmtPc \in { "start", "getLosingTeams", "done" }
        /\ fmtPc = "done" =>
              /\ formattedReplay = ReplayFormattedZero
              /\ fmtErr = IF xmbData = "civs" THEN "XmbError"
                          ELSE "no resign commands found"

\* the call on the empty command list has returned the error
C30_Witness ==
    /\ fmtPc = "done"
    /\ rawCommands = << >>
    /\ fmtErr = "no resign commands found"

\* the outcome of zlib.NewReader on the bytes after the l33t header and the
\* 8 skipped bytes, for an input that has both
C26_Zlib == ZlibNewReader(SliceFrom(compressed_array, l33tOffset + 8))

\* C26: Decompressl33t releases its inflate stream on every exit path and
\* reports a malformed zlib stream as an error value: when creating the
\* zlib reader fails the function returns that error, and when it succeeds
\* the reader is closed before returning.
C26_ReaderReleased ==
    (/\ l33tPc = "done"
     /\ SliceOK(compressed_array, l33tOffset, l33tOffset + 4)
     /\ SubSeq(compressed_array, l33tOffset + 1, l33tOffset + 4) = L33T
     /\ SliceOK(compressed_array, l33tOffset + 8, Len(compressed_array)))
        => IF C26_Zlib.status = "ok"
           THEN reader = "closed"
           ELSE l33tRet = "nil" /\ l33tErr = C26_Zlib.status

\* the offset findFooterOffset was called at for the k-th parsed command
\* list: after its last command and its selected-unit block
C27_FooterStart(k) ==
    LET cs == items[k].item.commands
        entryType == readUint32(items[k].offsetStart)
        first == items[k].offsetStart + 4 + 1
                    + (IF C7_BitSet(entryType, 0) THEN 1 ELSE 4)
                    + (IF C7_BitSet(entryType, 5) THEN 1
                       ELSE IF C7_BitSet(entryType, 6) THEN 4 ELSE 0)
        selStart == IF cs = << >> THEN first ELSE cs[Len(cs)].offsetEnd
    IN  IF C7_BitSet(entryType, 7) THEN selStart + 1 + 4 * ByteAt(selStart)
        ELSE selStart

\* C27: findFooterOffset called at footer start s reads the
\* extra_byte_count at s, then that many extra bytes, and accepts the footer
\* only if the byte after the extra bytes equals 1; the footer end it
\* returns is s + 14 + 4 * one_fourth_len with one_fourth_len the u16 at
\* s + 10.  Stated for every command list parsed up to its trailing entry
\* index.
C27_UnkAfterExtraBytes ==
    \A k \in 1..Len(items) :
       ~items[k].item.finalCommand =>
          /\ ByteAt(C27_FooterStart(k) + 1 + ByteAt(C27_FooterStart(k))) = 1
          /\ items[k].item.offsetEnd
                = C27_FooterStart(k) + 14 + 4 * readUint16(C27_FooterStart(k) + 10) + 5

\* one past the last payload byte the refiner of a command reads, counted
\* from the command's payload offset (part_003, the Refine methods)
C28_ReadEnd(refiner) ==
    CASE refiner = "TrainCommand" -> 19
      [] refiner = "BuildCommand" -> 24
      [] refiner = "ProtoPowerCommand" -> 56
      [] refiner = "BuySellResourcesCommand" -> 20
      [] refiner \in { "ResearchCommand", "TauntCommand", "CheatCommand",
                       "SetFormationCommand", "AutoqueueCommand",
                       "PrequeueTechCommand" } -> 12
      [] OTHER -> 0

\* the refiners whose reads end beyond their payload, among the commands
\* decoded so far
C28_Overreading ==
    { RefinerOf(commandList[i].commandType) :
          i \in { j \in 1..Len(commandList) :
                    C28_ReadEnd(RefinerOf(commandList[j].commandType))
                        > commandList[j].byteLength } }

\* C28: every refiner reads its extracted fields only from bytes of its own
\* command: from the payload range [offset, offset + byte_length) or from
\* the source vectors / pre-argument bytes captured for that command; the
\* train refiner's num_units byte and the timeshift refiner's
\* source_vectors[0] exist inside the command being decoded.
C28_ReadsInsideCommand ==
    /\ C28_Overreading = {}
    /\ \A i \in 1..Len(commandList) :
          /\ commandList[i].commandType = 68 => commandList[i].numSourceVectors >= 1
          /\ commandList[i].commandType = 3 => commandList[i].numPreArgumentBytes >= 1

\* the payload offset of the refined market command and its quantity bytes
C25_ResourceId == readInt32(refineBase.offset + 8)
C25_QuantityBytes == SubSeq(buf, refineBase.offset + 17, refineBase.offset + 20)

\* the quantity bytes encode a number below zero: the sign bit is set and
\* the bytes are neither a NaN nor minus zero
C25_Negative ==
    /\ C25_QuantityBytes[4] >= 128
    /\ C25_QuantityBytes # << 0, 0, 0, 128 >>
    /\ ~(/\ C25_QuantityBytes[4] % 128 = 127
         /\ C25_QuantityBytes[3] >= 128
         /\ SubSeq(C25_QuantityBytes, 1, 3) # << 0, 0, 128 >>)

\* C25: the marketBuySell refiner (type 13) maps resource id 1 to wood, 2 to
\* food and every other id to unknown, and maps the quantity to action sell
\* with the absolute value when the quantity is negative and to action buy
\* with the unchanged value otherwise; resource id 2 with quantity -50 gives
\* food / sell / 50.
C25_MarketBuySell ==
    (refinePc = "done" /\ refined.status = "ok") =>
        /\ refined.cmd.resourceType
              = (CASE C25_ResourceId = 1 -> "wood"
                   [] C25_ResourceId = 2 -> "food"
                   [] OTHER -> "unknown")
        /\ refined.cmd.action = IF C25_Negative THEN "sell" ELSE "buy"
        /\ refined.cmd.quantity.exp = readFloat(refineBase.offset + 16).exp
        /\ refined.cmd.quantity.mant = readFloat(refineBase.offset + 16).mant
        /\ refined.cmd.quantity.sign
              = IF C25_Negative THEN 0 ELSE C25_QuantityBytes[4] \div 128
        /\ (C25_ResourceId = 2 /\ C25_QuantityBytes = << 0, 0, 72, 194 >>) =>
              /\ refined.cmd.resourceType = "food"
              /\ refined.cmd.action = "sell"
              /\ refined.cmd.quantity = [ sign |-> 0, exp |-> 132, mant |-> 4718592 ]

\* resource id 2 with quantity -50 has been refined
C25_Witness ==
    /\ refinePc = "done"
    /\ refined.status = "ok"
    /\ C25_ResourceId = 2
    /\ C25_QuantityBytes = << 0, 0, 72, 194 >>
    /\ refined.cmd.action = "sell"

\* the length of the value of a record of the given type that starts at
\* position: 4 for Int32, 8 skipped bytes, 2 for Int16, 1 for Bool, and the
\* 4-byte length prefix and the 2-byte characters of a String
C22_ValueLength(keytype, position) ==
    CASE keytype \in { 1, 2 } -> 4
      [] keytype = 3 -> 8
      [] keytype = 4 -> 2
      [] keytype = 6 -> 1
      [] keytype = 10 -> 4 + 2 * readUint16(position)

-----------------------------------------------------------------------------
(* C21: in the header tree every child node ends at or before the end of   *)
(* its parent: for every node with a parent, offset + length + 6 of the    *)
(* node is at most offset + length + 6 of the parent.                      *)

\* the child numbered i ends inside its parent
C21_EndsInsideParent(i) ==
    \/ treeNodes[i].parent = 0
    \/ NodeEndOffset(treeNodes[i]) <= NodeEndOffset(treeNodes[treeNodes[i].parent])

C21_ChildEndsInsideParent ==
    \A i \in 1..Len(treeNodes) : C21_EndsInsideParent(i)

-----------------------------------------------------------------------------
(* C23: RenameRecFiles never deadlocks, no task blocks on the error        *)
(* channel, it returns only after every per-file task has finished, and it *)
(* returns nil exactly when no task reported a parse or rename error.      *)

\* while RenameRecFiles has not returned and the process has not died of a
\* panic, some step can be taken
C23_NoDeadlock == renPc \in { "walk", "spawn" } => ENABLED NextRen

\* a task that is about to send its error finds room in the channel
C23_NoTaskBlocks ==
    \A t \in 1..Len(renTasks) :
        renTasks[t].pc = "send" => Len(errChan) < ErrChanCapacity

\* once it has returned, one task per collected file was started and each
\* has finished, having sent at most the one error it met
C23_ReturnsAfterTasks ==
    renPc = "done" =>
        /\ Len(renTasks) = Len(replayFiles)
        /\ \A t \in 1..Len(renTasks) : renTasks[t].pc = "done"
        /\ Len(errChan) = Cardinality({ t \in 1..Len(renTasks) : renTasks[t].err # "none" })

C23_NoTaskError == \A t \in 1..Len(renTasks) : renTasks[t].err = "none"

\* C23 as stated: whenever it has returned, the result is nil exactly when
\* no task reported an error
C23_NilIffNoTaskError ==
    /\ C23_NoDeadlock
    /\ C23_NoTaskBlocks
    /\ C23_ReturnsAfterTasks
    /\ renPc = "done" => (renRet = "nil" <=> C23_NoTaskError)

\* C23 amended: when the walk of the directory succeeds, RenameRecFiles
\* never deadlocks, no task blocks on the channel, it returns only after
\* every task has finished, and it returns nil exactly when no task
\* reported an error; when the walk fails it returns the walk's error
\* without starting a task
C23_NilIffNoErrorAtAll ==
    /\ C23_NoDeadlock
    /\ C23_NoTaskBlocks
    /\ C23_ReturnsAfterTasks
    /\ renPc = "done" /\ ~renEnv.walkFails => (renRet = "nil" <=> C23_NoTaskError)
    /\ renPc = "done" /\ renEnv.walkFails => renRet = "walk error" /\ renTasks = << >>

\* returned with the channel filled to its capacity: every one of two tasks
\* sent an error
C23_Witness ==
    /\ renPc = "done"
    /\ Len(renTasks) = 2
    /\ Len(errChan) = ErrChanCapacity
    /\ renRet = "parse"

-----------------------------------------------------------------------------
(* C24: when two replay files of one run resolve to the same target file   *)
(* name, both tasks rename to it without conflict check or error;          *)
(* afterwards the target holds the content of the file whose task renamed  *)
(* last, and the other file's content is lost.                             *)

\* the content the file of task t had when RenameRecFiles was called
C24_FileContent(t) == renEnv.files[renTasks[t].input]

\* the place of task t in the order of the successful renames
C24_RenamedAt(t) == CHOOSE i \in 1..Len(renLog) : renLog[i] = t

\* no other file of the directory has the content of the file of task t,
\* so that the content tells the file
C24_OwnContent(t) ==
    \A q \in DOMAIN renEnv.files :
        renEnv.files[q] = C24_FileContent(t) => q = renTasks[t].input

\* tasks t1 and t2 of a finished run both renamed, to the same path, files
\* of different content
C24_SameTarget(t1, t2) ==
    /\ renPc = "done"
    /\ C24_OwnContent(t1)
    /\ C24_OwnContent(t2)
    /\ t1 # t2
    /\ renTasks[t1].moved # 0
    /\ renTasks[t2].moved # 0
    /\ renTasks[t1].target = renTasks[t2].target
    /\ C24_FileContent(t1) # C24_FileContent(t2)

\* the file of task last survives at the target, the file of task first is lost
C24_LastWins(first, last) ==
    /\ renTasks[first].err = "none"
    /\ renTasks[last].err = "none"
    /\ renTasks[last].target \in DOMAIN renFs
    /\ renFs[renTasks[last].target] = C24_FileContent(last)
    /\ \A q \in DOMAIN renFs : renFs[q] # C24_FileContent(first)

\* no task but t1 and t2 renames onto the target or onto the path of
\* either, or renames the file at the target away
C24_Undisturbed(t1, t2) ==
    \A t \in (1..Len(renTasks)) \ { t1, t2 } :
        /\ renTasks[t].target \notin
              { renTasks[t1].target, renTasks[t1].input, renTasks[t2].input }
        /\ renTasks[t].input # renTasks[t1].target

C24_LastRenamerSurvivesElsewhere ==
    \A t1, t2 \in 1..Len(renTasks) :
        /\ C24_SameTarget(t1, t2)
        /\ C24_RenamedAt(t1) < C24_RenamedAt(t2)
        /\ renTasks[t1].input # renTasks[t1].target
        /\ renTasks[t2].input # renTasks[t2].target
        /\ C24_Undisturbed(t1, t2)
        => C24_LastWins(t1, t2)

\* C24 amended, second part: when one of the two files is already at the
\* target path, its rename changes nothing and the other file survives
\* whatever the order
C24_FileAtTargetIsLost ==
    \A t1, t2 \in 1..Len(renTasks) :
        /\ C24_SameTarget(t1, t2)
        /\ renTasks[t1].input = renTasks[t1].target
        /\ C24_Undisturbed(t1, t2)
        => /\ renFs[renTasks[t1].target] = C24_FileContent(t2)
           /\ \A q \in DOMAIN renFs : renFs[q] # C24_FileContent(t1)

C24_WitnessInOrder ==
    \E t1, t2 \in 1..Len(renTasks) :
        /\ C24_SameTarget(t1, t2)
        /\ t1 < t2
        /\ C24_RenamedAt(t1) < C24_RenamedAt(t2)
        /\ renTasks[t1].input # renTasks[t1].target
        /\ C24_LastWins(t1, t2)

=============================================================================
